---------------------------- MODULE Spec2Model ----------------------------
(***************************************************************************)
(* sqldrift: statement tracking and transactional execution.               *)
(*                                                                         *)
(* The model follows the parser-backed variant of the command              *)
(* (src/lib/index.js, class SqlDrift, lines 490-947) and its splitter      *)
(* SqlParserService (src/unnamed/part_004).  Strings are sequences of      *)
(* UTF-16 code units (what charCodeAt returns).                            *)
(***************************************************************************)
EXTENDS Integers, Sequences, FiniteSets, TLC

(***************************************************************************)
(* Strings                                                                 *)
(***************************************************************************)

\* JavaScript white space (\s, String.prototype.trim), ASCII part:
\* TAB, LF, VT, FF, CR, SPACE.
IsWs(c) == c \in {9, 10, 11, 12, 13, 32}

\* JavaScript line terminators that "." does not match and "$"/"^" (flag m)
\* anchor at, ASCII part: LF, CR.
IsLineTerminator(c) == c \in {10, 13}

RECURSIVE trimStart(_)
trimStart(s) ==
    IF s # <<>> /\ IsWs(Head(s)) THEN trimStart(Tail(s)) ELSE s

RECURSIVE trimEnd(_)
trimEnd(s) ==
    IF s # <<>> /\ IsWs(s[Len(s)]) THEN trimEnd(SubSeq(s, 1, Len(s) - 1)) ELSE s

\* String.prototype.trim
trim(s) == trimEnd(trimStart(s))

\* String.prototype.startsWith
startsWith(s, p) == Len(p) <= Len(s) /\ SubSeq(s, 1, Len(p)) = p

\* String.prototype.toUpperCase on ASCII letters
toUpperCase(s) == [k \in 1..Len(s) |-> IF s[k] >= 97 /\ s[k] <= 122 THEN s[k] - 32 ELSE s[k]]

\* String.prototype.toLowerCase on ASCII letters
toLowerCase(s) == [k \in 1..Len(s) |-> IF s[k] >= 65 /\ s[k] <= 90 THEN s[k] + 32 ELSE s[k]]

(***************************************************************************)
(* generateHash (src/lib/index.js 775-784)                                 *)
(*   hash = ((hash << 5) - hash) + char;  hash = hash & hash               *)
(* The value before "&" is the exact integer 32*h' - h + c, where h' is    *)
(* h (already an int32); "& " applies ToInt32, so the new hash is          *)
(* (31*h + c) modulo 2^32, read as a signed 32-bit integer.  TLC's own     *)
(* integers are 32 bits wide, so the hash is carried as two unsigned       *)
(* 16-bit halves <<hi, lo>> and the arithmetic is done modulo 2^32 on      *)
(* the halves.                                                             *)
(***************************************************************************)
Half == 65536

\* Faulty variant: (hash << 5) + hash + char, the multiplier 33.
hashStepTimes33(h, c) ==
    LET lo == 33 * h[2] + c
        hi == 33 * h[1] + (lo \div Half)
    IN  <<hi % Half, lo % Half>>

hashStep(h, c) ==
    LET lo == 31 * h[2] + c
        hi == 31 * h[1] + (lo \div Half)
    IN  <<hi % Half, lo % Half>>

RECURSIVE hashLoop(_, _, _)
hashLoop(content, i, h) ==
    IF i > Len(content) THEN h
    ELSE hashLoop(content, i + 1, hashStep(h, content[i]))

\* The signed 32-bit value of the halves (ToInt32).
toInt32(h) == IF h[1] >= Half \div 2 THEN (h[1] - Half) * Half + h[2]
              ELSE h[1] * Half + h[2]

\* Decimal digits of a non-negative integer, most significant first.
RECURSIVE digitsOf(_)
digitsOf(n) ==
    IF n < 10 THEN <<48 + n>> ELSE Append(digitsOf(n \div 10), 48 + (n % 10))

\* Number.prototype.toString() of an int32: "-" and the digits of |n|.
\* |n| itself may be 2^31, so the last digit is taken off before negating.
numberToString(n) ==
    IF n >= 0 THEN digitsOf(n)
    ELSE LET d == (10 - (n % 10)) % 10
             q == -((n + d) \div 10)
         IN  <<45>> \o (IF q = 0 THEN <<>> ELSE digitsOf(q)) \o <<48 + d>>

generateHash(content) == numberToString(toInt32(hashLoop(content, 1, <<0, 0>>)))

(***************************************************************************)
(* SqlParserService (src/unnamed/part_004)                                 *)
(***************************************************************************)

\* content.replace(/--.*$/gm, ''): from each "--" up to, not including, the
\* next line terminator.
RECURSIVE skipLine(_)
skipLine(s) ==
    IF s = <<>> \/ IsLineTerminator(Head(s)) THEN s ELSE skipLine(Tail(s))

RECURSIVE removeDashComments(_)
removeDashComments(s) ==
    IF s = <<>> THEN <<>>
    ELSE IF startsWith(s, <<45, 45>>) THEN removeDashComments(skipLine(s))
    ELSE <<Head(s)>> \o removeDashComments(Tail(s))

\* content.replace(/^#.*$/gm, ''): "#" at the start of a line, up to the end
\* of that line.  atLineStart: the previous character is a line terminator
\* or there is none.
RECURSIVE removeHashComments(_, _)
removeHashComments(s, atLineStart) ==
    IF s = <<>> THEN <<>>
    ELSE IF atLineStart /\ Head(s) = 35
         THEN removeHashComments(skipLine(s), FALSE)
    ELSE <<Head(s)>> \o removeHashComments(Tail(s), IsLineTerminator(Head(s)))

\* Position of the first "*/" in s at or after index k, 0 when there is none.
RECURSIVE findCommentEnd(_, _)
findCommentEnd(s, k) ==
    IF k + 1 > Len(s) THEN 0
    ELSE IF s[k] = 42 /\ s[k + 1] = 47 THEN k
    ELSE findCommentEnd(s, k + 1)

\* content.replace(/\/\*[\s\S]*?\*\//g, ''): each "/*" up to the first "*/"
\* after it; an unterminated "/*" is left in place.
RECURSIVE removeBlockComments(_)
removeBlockComments(s) ==
    IF s = <<>> THEN <<>>
    ELSE IF startsWith(s, <<47, 42>>) /\ findCommentEnd(s, 3) # 0
         THEN removeBlockComments(SubSeq(s, findCommentEnd(s, 3) + 2, Len(s)))
    ELSE <<Head(s)>> \o removeBlockComments(Tail(s))

\* content.replace(/\s+/g, ' '): every run of white space becomes one space.
RECURSIVE collapseWhitespace(_)
collapseWhitespace(s) ==
    IF s = <<>> THEN <<>>
    ELSE IF IsWs(Head(s)) THEN <<32>> \o collapseWhitespace(trimStart(s))
    ELSE <<Head(s)>> \o collapseWhitespace(Tail(s))

\* part_004 107-121
cleanSqlContent(content) ==
    trim(collapseWhitespace(removeBlockComments(
        removeHashComments(removeDashComments(content), TRUE))))

\* Faulty variant: a doubled quote character ends the literal.
RECURSIVE splitLoopDoubledCloses(_, _, _, _, _)
splitLoopDoubledCloses(content, i, cur, stringChar, statements) ==
    IF i > Len(content)
    THEN IF trim(cur) # <<>> THEN Append(statements, trim(cur)) ELSE statements
    ELSE LET char == content[i]
             hasNext == i + 1 <= Len(content)
         IN  IF stringChar = 0
             THEN IF char \in {39, 34, 96}
                  THEN splitLoopDoubledCloses(content, i + 1, Append(cur, char), char,
                                              statements)
                  ELSE IF char = 59
                  THEN splitLoopDoubledCloses(content, i + 1, <<>>, 0,
                                 IF trim(cur) # <<>> THEN Append(statements, trim(cur))
                                 ELSE statements)
                  ELSE splitLoopDoubledCloses(content, i + 1, Append(cur, char), 0,
                                              statements)
             ELSE IF char = stringChar
                  THEN IF hasNext /\ content[i + 1] = stringChar
                       THEN splitLoopDoubledCloses(content, i + 2, cur \o <<char, char>>,
                                                   0, statements)
                       ELSE splitLoopDoubledCloses(content, i + 1, Append(cur, char), 0,
                                                   statements)
                  ELSE splitLoopDoubledCloses(content, i + 1, Append(cur, char),
                                              stringChar, statements)

\* part_004 123-170.  The loop state is (i, currentStatement, inString,
\* stringChar, statements); stringChar = 0 stands for null.
RECURSIVE splitLoop(_, _, _, _, _)
splitLoop(content, i, cur, stringChar, statements) ==
    IF i > Len(content)
    THEN IF trim(cur) # <<>> THEN Append(statements, trim(cur)) ELSE statements
    ELSE LET char == content[i]
             hasNext == i + 1 <= Len(content)
         IN  IF stringChar = 0
             THEN IF char \in {39, 34, 96}
                  THEN splitLoop(content, i + 1, Append(cur, char), char, statements)
                  ELSE IF char = 59
                  THEN splitLoop(content, i + 1, <<>>, 0,
                                 IF trim(cur) # <<>> THEN Append(statements, trim(cur))
                                 ELSE statements)
                  ELSE splitLoop(content, i + 1, Append(cur, char), 0, statements)
             ELSE IF char = stringChar
                  THEN IF hasNext /\ content[i + 1] = stringChar
                       THEN splitLoop(content, i + 2, cur \o <<char, char>>,
                                      stringChar, statements)
                       ELSE splitLoop(content, i + 1, Append(cur, char), 0, statements)
                  ELSE splitLoop(content, i + 1, Append(cur, char), stringChar, statements)

\* Faulty variant: the statements are returned last first.
splitBySemicolonReversed(content) ==
    LET statements == splitLoop(content, 1, <<>>, 0, <<>>)
    IN  [k \in 1..Len(statements) |-> statements[Len(statements) + 1 - k]]

splitBySemicolon(content) == splitLoop(content, 1, <<>>, 0, <<>>)

sqlKeywords ==
    { <<83, 69, 76, 69, 67, 84>>,          \* SELECT
      <<73, 78, 83, 69, 82, 84>>,          \* INSERT
      <<85, 80, 68, 65, 84, 69>>,          \* UPDATE
      <<68, 69, 76, 69, 84, 69>>,          \* DELETE
      <<67, 82, 69, 65, 84, 69>>,          \* CREATE
      <<68, 82, 79, 80>>,                  \* DROP
      <<65, 76, 84, 69, 82>>,              \* ALTER
      <<84, 82, 85, 78, 67, 65, 84, 69>>,  \* TRUNCATE
      <<71, 82, 65, 78, 84>>,              \* GRANT
      <<82, 69, 86, 79, 75, 69>>,          \* REVOKE
      <<67, 79, 77, 77, 73, 84>>,          \* COMMIT
      <<82, 79, 76, 76, 66, 65, 67, 75>>,  \* ROLLBACK
      <<83, 84, 65, 82, 84>>,              \* START
      <<66, 69, 71, 73, 78>>,              \* BEGIN
      <<85, 83, 69>>,                      \* USE
      <<83, 72, 79, 87>>,                  \* SHOW
      <<68, 69, 83, 67, 82, 73, 66, 69>>,  \* DESCRIBE
      <<69, 88, 80, 76, 65, 73, 78>>,      \* EXPLAIN
      <<67, 65, 76, 76>>,                  \* CALL
      <<83, 69, 84>>,                      \* SET
      <<68, 69, 67, 76, 65, 82, 69>>,      \* DECLARE
      <<73, 70>>,                          \* IF
      <<87, 72, 73, 76, 69>>,              \* WHILE
      <<76, 79, 79, 80>>,                  \* LOOP
      <<82, 69, 80, 69, 65, 84>> }         \* REPEAT

\* part_004 172-211.  The two early "return false" tests on END// and
\* DELIMITER (186-189, 205-207) only match statements that begin with END
\* or DELIMITER, which begin with no keyword of the list, so the result is
\* startsWithValidKeyword in every case.
looksLikeValidSql(statement) ==
    LET trimmedStmt == trim(statement)
        upperStmt == toUpperCase(trimmedStmt)
    IN  IF \/ Len(trimmedStmt) = 0
           \/ startsWith(trimmedStmt, <<35>>)
           \/ startsWith(trimmedStmt, <<45, 45>>)
           \/ startsWith(trimmedStmt, <<47, 42>>)
        THEN FALSE
        ELSE \E keyword \in sqlKeywords : startsWith(upperStmt, keyword)

\* this.parser.parse(stmt) of node-sql-parser (part_004 31, 74), a third-party
\* parser: TRUE when it returns, FALSE when it throws.  The model's parser
\* accepts a statement that is a keyword of the list followed by a space and
\* at least one more character, and rejects everything else.
parserParses(stmt) ==
    \E keyword \in sqlKeywords :
        /\ startsWith(toUpperCase(stmt), Append(keyword, 32))
        /\ Len(stmt) > Len(keyword) + 1

\* part_004 21-44: keep a statement the parser accepts or that looks like
\* SQL; skip (with a warning only) every other one.
RECURSIVE validStatements(_)
validStatements(statements) ==
    IF statements = <<>> THEN <<>>
    ELSE LET trimmedStmt == trim(Head(statements))
             rest == validStatements(Tail(statements))
         IN  IF Len(trimmedStmt) = 0 THEN rest
             ELSE IF parserParses(trimmedStmt) \/ looksLikeValidSql(trimmedStmt)
             THEN <<trimmedStmt>> \o rest
             ELSE rest

\* part_004 9-54
splitSqlFile(sqlContent) ==
    validStatements(splitBySemicolon(cleanSqlContent(sqlContent)))

(***************************************************************************)
(* Tracking (src/lib/index.js 756-789)                                     *)
(***************************************************************************)

\* statements.map((stmt, index) => ({id, sql, hash}))   (762-766)
parseSqlFile(content) ==
    LET statements == splitSqlFile(content)
    IN  [index \in 1..Len(statements) |->
            [id   |-> index,
             sql  |-> trim(statements[index]),
             hash |-> generateHash(trim(statements[index]))]]

\* Faulty variant: the set is built from item.sql instead of item.hash.
executedHashesBySql(history) == {history[k].sql : k \in 1..Len(history)}

\* Faulty variant: records flagged recordedOnly are left out of the set.
executedHashesNotRecorded(history) ==
    {history[k].hash : k \in {j \in 1..Len(history) : ~history[j].recordedOnly}}

\* new Set(history.executed.map(item => item.hash))   (787)
executedHashes(history) == {history[k].hash : k \in 1..Len(history)}

\* Faulty variant: the new statements are collected in reverse order.
RECURSIVE filterNewReversed(_, _)
filterNewReversed(statements, hashes) ==
    IF statements = <<>> THEN <<>>
    ELSE IF Head(statements).hash \notin hashes
         THEN filterNewReversed(Tail(statements), hashes) \o <<Head(statements)>>
         ELSE filterNewReversed(Tail(statements), hashes)

\* Faulty variant: a statement whose hash was met earlier in the script is
\* not taken as new.
RECURSIVE filterNewDistinct(_, _)
filterNewDistinct(statements, hashes) ==
    IF statements = <<>> THEN <<>>
    ELSE IF Head(statements).hash \notin hashes
         THEN <<Head(statements)>> \o
              filterNewDistinct(Tail(statements), hashes \cup {Head(statements).hash})
         ELSE filterNewDistinct(Tail(statements), hashes)

\* statements.filter(stmt => !executedHashes.has(stmt.hash))   (788)
RECURSIVE filterNew(_, _)
filterNew(statements, hashes) ==
    IF statements = <<>> THEN <<>>
    ELSE IF Head(statements).hash \notin hashes
         THEN <<Head(statements)>> \o filterNew(Tail(statements), hashes)
         ELSE filterNew(Tail(statements), hashes)

\* Faulty variant: a statement is taken as applied when a record has its id.
findNewStatementsById(statements, history) ==
    SelectSeq(statements,
              LAMBDA stmt : stmt.id \notin {history[k].id : k \in 1..Len(history)})

\* Faulty variant: the statements found new are numbered again from 1.
findNewStatementsRenumbering(statements, history) ==
    LET new == filterNew(statements, executedHashes(history))
    IN  [k \in 1..Len(new) |-> [new[k] EXCEPT !.id = k]]

findNewStatements(statements, history) ==
    filterNew(statements, executedHashes(history))

(***************************************************************************)
(* LLMService (src/lib/services/llm-service.js), the splitter of the       *)
(* LLM-backed variant of the command (src/lib/index.js 1-479)              *)
(***************************************************************************)

\* What the request of splitSqlFile gives (12-65): makeRequest throws
\* (backend unreachable, timeout, error status, empty response); or the
\* response holds no text that JSON.parse accepts, so "statements" stays
\* undefined; or the JSON found is not an array; or it is an array, whose
\* elements are strings or something else (objects, numbers).
LlmError == [kind |-> "error", elements |-> <<>>]
LlmNoJson == [kind |-> "noJson", elements |-> <<>>]
LlmNotArray == [kind |-> "notArray", elements |-> <<>>]
LlmArray(elements) == [kind |-> "array", elements |-> elements]

\* An element of the array: a string, or an object that wraps the text.
LlmString(text) == [type |-> "string", text |-> text]
LlmObject(text) == [type |-> "object", text |-> text]

\* statements.filter(stmt => typeof stmt === 'string' && stmt.trim().length > 0)
\* (76)
RECURSIVE filterStrings(_)
filterStrings(elements) ==
    IF elements = <<>> THEN <<>>
    ELSE IF Head(elements).type = "string" /\ Len(trim(Head(elements).text)) > 0
         THEN <<Head(elements).text>> \o filterStrings(Tail(elements))
         ELSE filterStrings(Tail(elements))

\* LLMService.splitSqlFile (12-80): ok = FALSE when it throws.
llmSplitSqlFile(response) ==
    IF response.kind \in {"error", "noJson", "notArray"}
    THEN [ok |-> FALSE, statements |-> <<>>]
    ELSE [ok |-> TRUE, statements |-> filterStrings(response.elements)]

\* The responses of the backend to the request about a script: the three
\* that are not an array, and arrays that hold the statements of the script
\* as strings, as objects, and the first as a string and the others as
\* objects.
LlmResponses(script) ==
    LET texts == splitBySemicolon(cleanSqlContent(script)) IN
    { LlmError, LlmNoJson, LlmNotArray,
      LlmArray([k \in 1..Len(texts) |-> LlmString(texts[k])]),
      LlmArray([k \in 1..Len(texts) |-> LlmObject(texts[k])]),
      LlmArray([k \in 1..Len(texts) |->
                  IF k = 1 THEN LlmString(texts[k]) ELSE LlmObject(texts[k])]) }

\* statements.map((stmt, index) => ({id, sql, hash}))   (src/lib/index.js
\* 292-296)
statementRecords(statements) ==
    [index \in 1..Len(statements) |->
        [id   |-> index,
         sql  |-> trim(statements[index]),
         hash |-> generateHash(trim(statements[index]))]]

(***************************************************************************)
(* The run: inputs, files, database                                        *)
(***************************************************************************)

\* Number of invocations of the command in one behaviour.
MaxRuns == 3

\* Processes that run the command.  The sequential specification uses one.
Procs == {1, 2}

\* flags.environment: "dev", "dev-a"
Environments == {<<100, 101, 118>>, <<100, 101, 118, 45, 97>>}

\* path.basename(sqlFilePath): "m.sql", "a-m.sql"
SqlFileNames == {<<109, 46, 115, 113, 108>>, <<97, 45, 109, 46, 115, 113, 108>>}

\* The (environment, file) pair of the sequential specification.
Pair1 == <<(<<100, 101, 118>>), (<<109, 46, 115, 113, 108>>)>>

\* Two more pairs: ("dev-a", "m.sql") and ("dev", "a-m.sql").
PairA == <<(<<100, 101, 118, 45, 97>>), (<<109, 46, 115, 113, 108>>)>>
PairB == <<(<<100, 101, 118>>), (<<97, 45, 109, 46, 115, 113, 108>>)>>
Pairs == {Pair1, PairA, PairB}

\* Contents of the SQL file.
ScriptA == <<83, 69, 84, 32, 65, 97, 59>>               \* "SET Aa;"
ScriptB == <<83, 69, 84, 32, 65, 97, 59, 83, 69, 84, 32, 66, 66, 59, 10, 83, 69, 84, 32, 98, 59>>
                                                        \* "SET Aa;SET BB;\nSET b;"
ScriptD == <<83, 69, 84, 32, 98, 59, 32, 83, 69, 84, 32, 98>>
                                                        \* "SET b; SET b"
ScriptE == <<32, 59, 10>>                               \* " ;\n"
Scripts == {ScriptA, ScriptB, ScriptD, ScriptE}

\* What the file system holds when the run starts: the SQL file, the
\* configuration file and the [environment] section of it.
Preconditions == {"ok", "noSqlFile", "noConfig", "noSection"}

\* Answers typed at the prompt: "y", "Yes", "n", "".
Answers == {<<121>>, <<89, 101, 115>>, <<110>>, <<>>}

\* path.join(sqldriftDir, `${flags.environment}-${sqlFileName}-history.json`)
\* (613-615), without the directory, which is the same for every run.
historyFilePath(environment, sqlFileName) ==
    environment \o <<45>> \o sqlFileName
        \o <<45, 104, 105, 115, 116, 111, 114, 121, 46, 106, 115, 111, 110>>

HistoryPaths == {historyFilePath(e, f) : e \in Environments, f \in SqlFileNames}

\* A history file: absent, or present with a JSON document
\* {"executed": [...]}, or present and not parseable as JSON.
NoFile == [exists |-> FALSE, readable |-> FALSE, executed |-> <<>>]
JsonFile(history) == [exists |-> TRUE, readable |-> TRUE, executed |-> history]
BrokenFile == [exists |-> TRUE, readable |-> FALSE, executed |-> <<>>]

VARIABLES
    disk,   \* history files: [HistoryPaths -> file]
    db,     \* per environment, the statements committed to its database
    proc,   \* per process, the state of its invocation
    runs,   \* invocations started so far; also the clock of executedAt
    prev    \* what the last finished invocation did

vars == <<disk, db, proc, runs, prev>>

Idle ==
    [pc |-> "idle", recordHistory |-> FALSE, clearHistory |-> FALSE,
     environment |-> <<>>, sqlFileName |-> <<>>, script |-> <<>>, pre |-> "ok",
     history |-> <<>>, statements |-> <<>>, newStatements |-> <<>>, i |-> 0,
     conn |-> "none", tx |-> <<>>, wire |-> <<>>, answer |-> <<>>,
     prompted |-> FALSE, writes |-> 0, outcome |-> "none", exitCode |-> -1,
     message |-> "", failedAt |-> 0, disk0 |-> NoFile, db0 |-> <<>>, now |-> 0]

\* What is kept of a finished invocation: its inputs, its result and what
\* it found new.
Summary(l) ==
    [environment |-> l.environment, sqlFileName |-> l.sqlFileName,
     script |-> l.script, pre |-> l.pre,
     recordHistory |-> l.recordHistory, clearHistory |-> l.clearHistory,
     outcome |-> l.outcome, exitCode |-> l.exitCode,
     statements |-> l.statements, newStatements |-> l.newStatements]

Init ==
    /\ disk = [path \in HistoryPaths |-> NoFile]
    /\ db = [e \in Environments |-> <<>>]
    /\ proc = [p \in Procs |-> Idle]
    /\ runs = 0
    /\ prev = Summary(Idle)

\* The history file of the invocation l.
pathOf(l) == historyFilePath(l.environment, l.sqlFileName)

\* return from run(): the process ends with status 0.
Exit0(l, outcome) == [l EXCEPT !.pc = "done", !.exitCode = 0, !.outcome = outcome]

\* An error reaches the catch of run() (654-665): process.exit(1).
Fatal(l, message) ==
    [l EXCEPT !.pc = "done", !.exitCode = 1, !.outcome = "fatal", !.message = message]

\* One command on the database connection.
Wire(op, sql) == [op |-> op, sql |-> sql]

\* The record pushed to history.executed (884-889, 919-925).  recordedOnly is
\* FALSE where the code leaves the key out.
HistoryRecord(statement, now, recordedOnly) ==
    [id |-> statement.id, hash |-> statement.hash, sql |-> statement.sql,
     executedAt |-> now, recordedOnly |-> recordedOnly]

\* fs.writeJson(historyFilePath, history) (895, 929): fs.writeFile of the
\* whole document.  It succeeds, or fails before the file is opened (the
\* file is as it was), or fails after the file was truncated (what is left
\* is not a JSON document).
WriteOutcomes == {"ok", "failed", "partial"}

writeJson(file, history, outcome) ==
    CASE outcome = "ok" -> JsonFile(history)
      [] outcome = "failed" -> file
      [] outcome = "partial" -> BrokenFile

\* The database: a transaction collects the statements executed on the
\* connection; COMMIT makes them part of the database, ROLLBACK (or the end
\* of the connection) drops them.
dbExecute(tx, sql) == Append(tx, sql)
dbCommit(committed, tx) == committed \o tx
dbRollback(tx) == <<>>

\* validateSqlStatement (part_004 56-105): isValid is false only when the
\* parser throws and the statement does not look like SQL; the injection
\* and performance checks only add issues and recommendations.
validateSqlStatement(sqlStatement) ==
    LET trimmedSql == trim(sqlStatement)
    IN  [isValid |-> parserParses(trimmedSql) \/ looksLikeValidSql(trimmedSql)]

\* Faulty variant: everything but "n" and "no" confirms, empty input included.
confirmedUnlessNo(answer) ==
    toLowerCase(answer) \notin {<<110>>, <<110, 111>>}

\* resolve(answer.toLowerCase() === 'y' || answer.toLowerCase() === 'yes') (809)
confirmed(answer) ==
    toLowerCase(answer) \in {<<121>>, <<121, 101, 115>>}

\* Faulty variant: the catch block ends the connection without rolling back.
catchBlockNoRollback(l) ==
    [Fatal(l, "Transaction failed")
        EXCEPT !.wire = Append(l.wire, Wire("END", <<>>)),
               !.conn = "ended"]

\* catch (error) { rollback; this.error(...) } finally { connection.end() }
\* (900-905); the error then reaches the catch of run().
catchBlock(l) ==
    [Fatal(l, "Transaction failed and was rolled back")
        EXCEPT !.tx = dbRollback(l.tx),
               !.wire = l.wire \o <<Wire("ROLLBACK", <<>>), Wire("END", <<>>)>>,
               !.conn = "ended"]

(***************************************************************************)
(* run() (549-666) and the operations it calls                             *)
(***************************************************************************)

\* The command is started: sqldrift <sqlfile> [--environment] [--record-history]
\* [--clear-history].  The content of the SQL file is read by parseSqlFile
\* only; an invocation that cannot get that far has none.
Invoke(p, pairs, scripts) ==
    /\ proc[p].pc \in {"idle", "done"}
    /\ runs < MaxRuns
    /\ \E pair \in pairs, pre \in Preconditions, rec \in BOOLEAN, clr \in BOOLEAN :
         \E script \in (IF pre = "ok" THEN scripts ELSE {<<>>}) :
            proc' = [proc EXCEPT ![p] =
                        [Idle EXCEPT !.pc = "start",
                                     !.environment = pair[1],
                                     !.sqlFileName = pair[2],
                                     !.script = script,
                                     !.pre = pre,
                                     !.recordHistory = rec,
                                     !.clearHistory = clr,
                                     !.disk0 = disk[historyFilePath(pair[1], pair[2])],
                                     !.db0 = db[pair[1]],
                                     !.now = runs + 1]]
    /\ runs' = runs + 1
    /\ prev' = IF proc[p].pc = "done" THEN Summary(proc[p]) ELSE prev
    /\ UNCHANGED <<disk, db>>

\* Faulty variant: the section of the environment is looked up only when the
\* database is needed, so a run with --clear-history goes on without it.
PrepareSectionLater(p) ==
    LET l == proc[p] IN
    /\ l.pc = "start"
    /\ proc' = [proc EXCEPT ![p] =
          CASE l.pre = "noSqlFile" -> Fatal(l, "SQL file not found")
            [] l.pre = "noConfig" -> Fatal(l, "Configuration file not found")
            [] l.pre = "noSection" /\ ~l.clearHistory ->
                  Fatal(l, "Configuration file must contain section")
            [] OTHER -> [l EXCEPT !.pc = "mode"]]
    /\ UNCHANGED <<disk, db, runs, prev>>

\* 577-611: the SQL file, the configuration and its section must exist.
\* The parser self-test (598-611) parses "SELECT 1 as test", which the
\* parser accepts, so it never ends the run.
Prepare(p) ==
    LET l == proc[p] IN
    /\ l.pc = "start"
    /\ proc' = [proc EXCEPT ![p] =
          CASE l.pre = "noSqlFile" -> Fatal(l, "SQL file not found")
            [] l.pre = "noConfig" -> Fatal(l, "Configuration file not found")
            [] l.pre = "noSection" -> Fatal(l, "Configuration file must contain section")
            [] OTHER -> [l EXCEPT !.pc = "mode"]]
    /\ UNCHANGED <<disk, db, runs, prev>>

\* Faulty variant: the "return" after clearHistory (620) is missing, so the run
\* goes on with the other modes.
ClearHistoryFallsThrough(p) ==
    LET l == proc[p] IN
    /\ l.pc = "mode"
    /\ l.clearHistory
    /\ disk' = [disk EXCEPT ![pathOf(l)] = NoFile]
    /\ proc' = [proc EXCEPT ![p] = [l EXCEPT !.pc = "parse"]]
    /\ UNCHANGED <<db, runs, prev>>

\* Faulty variant: the file is emptied, not deleted.
ClearHistoryEmptying(p) ==
    LET l == proc[p] IN
    /\ l.pc = "mode"
    /\ l.clearHistory
    /\ IF disk[pathOf(l)].exists
       THEN /\ disk' = [disk EXCEPT ![pathOf(l)] = JsonFile(<<>>)]
            /\ proc' = [proc EXCEPT ![p] = Exit0(l, "cleared")]
       ELSE /\ disk' = disk
            /\ proc' = [proc EXCEPT ![p] = Exit0(l, "absent")]
    /\ UNCHANGED <<db, runs, prev>>

\* Faulty variant: the history is loaded before it is cleared, so a file that is
\* not JSON ends the run.
ClearHistoryAfterLoad(p) ==
    LET l == proc[p] IN
    /\ l.pc = "mode"
    /\ l.clearHistory
    /\ IF disk[pathOf(l)].exists /\ ~disk[pathOf(l)].readable
       THEN /\ disk' = disk
            /\ proc' = [proc EXCEPT ![p] = Fatal(l, "history file is not JSON")]
       ELSE IF disk[pathOf(l)].exists
       THEN /\ disk' = [disk EXCEPT ![pathOf(l)] = NoFile]
            /\ proc' = [proc EXCEPT ![p] = Exit0(l, "cleared")]
       ELSE /\ disk' = disk
            /\ proc' = [proc EXCEPT ![p] = Exit0(l, "absent")]
    /\ UNCHANGED <<db, runs, prev>>

\* Faulty variant: the history is reported cleared but the file is left in place.
ClearHistoryKeeping(p) ==
    LET l == proc[p] IN
    /\ l.pc = "mode"
    /\ l.clearHistory
    /\ proc' = [proc EXCEPT ![p] =
          Exit0(l, IF disk[pathOf(l)].exists THEN "cleared" ELSE "absent")]
    /\ UNCHANGED <<disk, db, runs, prev>>

\* 617-621 and clearHistory (936-946).  fs.pathExists and fs.remove are
\* taken to succeed.
ClearHistory(p) ==
    LET l == proc[p] IN
    /\ l.pc = "mode"
    /\ l.clearHistory
    /\ IF disk[pathOf(l)].exists
       THEN /\ disk' = [disk EXCEPT ![pathOf(l)] = NoFile]
            /\ proc' = [proc EXCEPT ![p] = Exit0(l, "cleared")]
       ELSE /\ disk' = disk
            /\ proc' = [proc EXCEPT ![p] = Exit0(l, "absent")]
    /\ UNCHANGED <<db, runs, prev>>

\* Faulty variant: a history file that is not JSON is taken as an empty history.
LoadHistoryAssumingEmpty(p) ==
    LET l == proc[p]
        file == disk[pathOf(l)]
    IN
    /\ l.pc = "mode"
    /\ ~l.clearHistory
    /\ proc' = [proc EXCEPT ![p] =
          [l EXCEPT !.pc = "parse",
                    !.history = IF file.exists /\ file.readable
                                THEN file.executed ELSE <<>>]]
    /\ UNCHANGED <<disk, db, runs, prev>>

\* Faulty variant: the history is loaded under a lock that a process holds
\* until it ends, so a second process waits before loading.
LoadHistoryLocked(p) ==
    LET l == proc[p]
        file == disk[pathOf(l)]
    IN
    /\ l.pc = "mode"
    /\ ~l.clearHistory
    /\ \A q \in Procs \ {p} : proc[q].pc \in {"idle", "start", "mode", "done"}
    /\ proc' = [proc EXCEPT ![p] =
          IF file.exists /\ ~file.readable
          THEN Fatal(l, "history file is not JSON")
          ELSE [l EXCEPT !.pc = "parse",
                         !.history = IF file.exists THEN file.executed ELSE <<>>]]
    /\ UNCHANGED <<disk, db, runs, prev>>

\* 623-624 and loadHistory (749-754)
LoadHistory(p) ==
    LET l == proc[p]
        file == disk[pathOf(l)]
    IN
    /\ l.pc = "mode"
    /\ ~l.clearHistory
    /\ proc' = [proc EXCEPT ![p] =
          IF file.exists /\ ~file.readable
          THEN Fatal(l, "history file is not JSON")
          ELSE [l EXCEPT !.pc = "parse",
                         !.history = IF file.exists THEN file.executed ELSE <<>>]]
    /\ UNCHANGED <<disk, db, runs, prev>>

\* parseSqlFile of each script of the model, computed once.
parsedScripts == [script \in Scripts |-> parseSqlFile(script)]

\* 626-627 and parseSqlFile (756-773)
ParseSqlFile(p) ==
    LET l == proc[p] IN
    /\ l.pc = "parse"
    /\ proc' = [proc EXCEPT ![p] =
          [l EXCEPT !.pc = "findNew",
                    !.statements = IF l.script \in Scripts
                                   THEN parsedScripts[l.script]
                                   ELSE parseSqlFile(l.script)]]
    /\ UNCHANGED <<disk, db, runs, prev>>

\* Faulty variant: the tracker pushes what it finds new to the history in memory.
FindNewStatementsMarking(p) ==
    LET l == proc[p]
        new == findNewStatements(l.statements, l.history)
    IN
    /\ l.pc = "findNew"
    /\ proc' = [proc EXCEPT ![p] =
          [l EXCEPT !.pc = "dispatch",
                    !.newStatements = new,
                    !.history = l.history \o [k \in 1..Len(new) |->
                                    [id |-> new[k].id, hash |-> new[k].hash,
                                     sql |-> new[k].sql, executedAt |-> l.now,
                                     recordedOnly |-> FALSE]]]]
    /\ UNCHANGED <<disk, db, runs, prev>>

\* 629-630
FindNewStatements(p) ==
    LET l == proc[p] IN
    /\ l.pc = "findNew"
    /\ proc' = [proc EXCEPT ![p] =
          [l EXCEPT !.pc = "dispatch",
                    !.newStatements = findNewStatements(l.statements, l.history)]]
    /\ UNCHANGED <<disk, db, runs, prev>>

\* Faulty variant: a run that found nothing new still writes the history it loaded.
NoNewStatementsSaving(p) ==
    LET l == proc[p] IN
    /\ l.pc = "dispatch"
    /\ Len(l.newStatements) = 0
    /\ disk' = [disk EXCEPT ![pathOf(l)] = JsonFile(l.history)]
    /\ proc' = [proc EXCEPT ![p] = Exit0([l EXCEPT !.writes = l.writes + 1], "noop")]
    /\ UNCHANGED <<db, runs, prev>>

\* 632-635
NoNewStatements(p) ==
    LET l == proc[p] IN
    /\ l.pc = "dispatch"
    /\ Len(l.newStatements) = 0
    /\ proc' = [proc EXCEPT ![p] = Exit0(l, "noop")]
    /\ UNCHANGED <<disk, db, runs, prev>>

\* Faulty variant: the records are pushed without the recordedOnly flag.
recordedHistoryUnflagged(l) ==
    l.history \o [k \in 1..Len(l.newStatements) |->
                     HistoryRecord(l.newStatements[k], l.now, FALSE)]

\* The history after recordHistoryOnly's loop (917-926).
recordedHistory(l) ==
    l.history \o [k \in 1..Len(l.newStatements) |->
                     HistoryRecord(l.newStatements[k], l.now, TRUE)]

\* Faulty variant: the "return" after recordHistoryOnly (640) is missing, so the run
\* goes on to execute what it recorded.
RecordHistoryOnlyFallsThrough(p) ==
    LET l == proc[p] IN
    /\ l.pc = "dispatch"
    /\ Len(l.newStatements) # 0
    /\ l.recordHistory
    /\ \E w \in WriteOutcomes :
         LET l2 == [l EXCEPT !.history = recordedHistory(l), !.writes = l.writes + 1]
         IN  /\ disk' = [disk EXCEPT ![pathOf(l)] = writeJson(@, l2.history, w)]
             /\ proc' = [proc EXCEPT ![p] =
                   IF w = "ok" THEN [l2 EXCEPT !.pc = "connect"]
                   ELSE Fatal(l2, "history write failed")]
    /\ UNCHANGED <<db, runs, prev>>

\* 637-641 and recordHistoryOnly (908-934)
RecordHistoryOnly(p) ==
    LET l == proc[p] IN
    /\ l.pc = "dispatch"
    /\ Len(l.newStatements) # 0
    /\ l.recordHistory
    /\ \E w \in WriteOutcomes :
         LET l2 == [l EXCEPT !.history = recordedHistory(l), !.writes = l.writes + 1]
         IN  /\ disk' = [disk EXCEPT ![pathOf(l)] = writeJson(@, l2.history, w)]
             /\ proc' = [proc EXCEPT ![p] =
                   IF w = "ok" THEN Exit0(l2, "recorded")
                   ELSE Fatal(l2, "history write failed")]
    /\ UNCHANGED <<db, runs, prev>>

\* Faulty variant: the prompt is asked again until the answer is yes.
ConfirmExecutionUntilYes(p) ==
    LET l == proc[p] IN
    /\ l.pc = "dispatch"
    /\ Len(l.newStatements) # 0
    /\ ~l.recordHistory
    /\ \E answer \in Answers :
         LET l2 == [l EXCEPT !.prompted = TRUE, !.answer = answer]
         IN  proc' = [proc EXCEPT ![p] =
                IF confirmed(answer) THEN [l2 EXCEPT !.pc = "connect"] ELSE l2]
    /\ UNCHANGED <<disk, db, runs, prev>>

\* 643-649 and confirmExecution (791-812)
ConfirmExecution(p) ==
    LET l == proc[p] IN
    /\ l.pc = "dispatch"
    /\ Len(l.newStatements) # 0
    /\ ~l.recordHistory
    /\ \E answer \in Answers :
         LET l2 == [l EXCEPT !.prompted = TRUE, !.answer = answer]
         IN  proc' = [proc EXCEPT ![p] =
                IF confirmed(answer) THEN [l2 EXCEPT !.pc = "connect"]
                ELSE Exit0(l2, "cancelled")]
    /\ UNCHANGED <<disk, db, runs, prev>>

\* Faulty variant: a connection that could not be opened is not noticed and the
\* run goes on to begin the transaction.
CreateConnectionIgnoringFailure(p) ==
    LET l == proc[p]
        l2 == [l EXCEPT !.wire = Append(l.wire, Wire("CONNECT", <<>>))]
    IN
    /\ l.pc = "connect"
    /\ \E ok \in BOOLEAN :
         proc' = [proc EXCEPT ![p] =
            IF ok THEN [l2 EXCEPT !.pc = "begin", !.conn = "open"]
            ELSE [l2 EXCEPT !.pc = "begin", !.message = "connection failed"]]
    /\ UNCHANGED <<disk, db, runs, prev>>

\* executeStatements, mysql.createConnection (815-821): outside the try, so
\* a failure goes straight to the catch of run().
CreateConnection(p) ==
    LET l == proc[p]
        l2 == [l EXCEPT !.wire = Append(l.wire, Wire("CONNECT", <<>>))]
    IN
    /\ l.pc = "connect"
    /\ \E ok \in BOOLEAN :
         proc' = [proc EXCEPT ![p] =
            IF ok THEN [l2 EXCEPT !.pc = "begin", !.conn = "open"]
            ELSE Fatal(l2, "connection failed")]
    /\ UNCHANGED <<disk, db, runs, prev>>

\* connection.beginTransaction() (824)
BeginTransaction(p) ==
    LET l == proc[p]
        l2 == [l EXCEPT !.wire = Append(l.wire, Wire("BEGIN", <<>>))]
    IN
    /\ l.pc = "begin"
    /\ \E ok \in BOOLEAN :
         proc' = [proc EXCEPT ![p] =
            IF ok THEN [l2 EXCEPT !.pc = "loop", !.i = 1]
            ELSE catchBlock(l2)]
    /\ UNCHANGED <<disk, db, runs, prev>>

\* Faulty variant: the executed statement is not pushed to the history.
executedOneNoPush(l) ==
    LET statement == l.newStatements[l.i] IN
    [l EXCEPT !.wire = Append(l.wire, Wire("EXECUTE", statement.sql)),
              !.tx = dbExecute(l.tx, statement.sql),
              !.i = l.i + 1,
              !.pc = IF l.i + 1 > Len(l.newStatements) THEN "commit" ELSE "loop"]

\* The local state after one successful iteration of the loop (881-889):
\* the statement was executed in the transaction and pushed to the history
\* in memory.
executedOne(l) ==
    LET statement == l.newStatements[l.i] IN
    [l EXCEPT !.wire = Append(l.wire, Wire("EXECUTE", statement.sql)),
              !.tx = dbExecute(l.tx, statement.sql),
              !.history = Append(l.history, HistoryRecord(statement, l.now, FALSE)),
              !.i = l.i + 1,
              !.pc = IF l.i + 1 > Len(l.newStatements) THEN "commit" ELSE "loop"]

\* Faulty variant: a statement that failed is sent a second time before the
\* failure is taken as final.
ExecuteStatementRetrying(p) ==
    LET l == proc[p]
        statement == l.newStatements[l.i]
        sent == [l EXCEPT !.wire = Append(l.wire, Wire("EXECUTE", statement.sql))]
    IN
    /\ l.pc = "loop"
    /\ \E ok \in BOOLEAN :
         proc' = [proc EXCEPT ![p] =
            IF ok THEN executedOne(l)
            ELSE IF l.failedAt = 0 THEN [sent EXCEPT !.failedAt = l.i]
            ELSE catchBlock(sent)]
    /\ UNCHANGED <<disk, db, runs, prev>>

\* One iteration of the loop of executeStatements (828-890).  An invalid
\* statement: rollback, this.error, caught by the inner catch, which rolls
\* back again and calls process.exit(1) (842-877); the finally block does
\* not run.
ExecuteStatement(p) ==
    LET l == proc[p]
        statement == l.newStatements[l.i]
    IN
    /\ l.pc = "loop"
    /\ \E ok \in BOOLEAN :
         proc' = [proc EXCEPT ![p] =
            IF ~validateSqlStatement(statement.sql).isValid
            THEN [Fatal(l, "SQL validation failed")
                    EXCEPT !.tx = dbRollback(l.tx),
                           !.wire = l.wire \o <<Wire("ROLLBACK", <<>>),
                                                Wire("ROLLBACK", <<>>)>>,
                           !.conn = "dropped"]
            ELSE IF ok THEN executedOne(l)
            ELSE catchBlock([l EXCEPT !.wire = Append(l.wire,
                                                  Wire("EXECUTE", statement.sql)),
                                      !.failedAt = l.i])]
    /\ UNCHANGED <<disk, db, runs, prev>>

\* Faulty variant: a failed commit is not noticed and the run goes on to save.
CommitIgnoringFailure(p) ==
    LET l == proc[p]
        l2 == [l EXCEPT !.wire = Append(l.wire, Wire("COMMIT", <<>>))]
    IN
    /\ l.pc = "commit"
    /\ \E ok \in BOOLEAN :
         /\ db' = IF ok THEN [db EXCEPT ![l.environment] = dbCommit(@, l.tx)] ELSE db
         /\ proc' = [proc EXCEPT ![p] = [l2 EXCEPT !.pc = "save", !.tx = <<>>]]
    /\ UNCHANGED <<disk, runs, prev>>

\* connection.commit() (892)
Commit(p) ==
    LET l == proc[p]
        l2 == [l EXCEPT !.wire = Append(l.wire, Wire("COMMIT", <<>>))]
    IN
    /\ l.pc = "commit"
    /\ \E ok \in BOOLEAN :
         IF ok
         THEN /\ db' = [db EXCEPT ![l.environment] = dbCommit(@, l.tx)]
              /\ proc' = [proc EXCEPT ![p] = [l2 EXCEPT !.pc = "save", !.tx = <<>>]]
         ELSE /\ db' = db
              /\ proc' = [proc EXCEPT ![p] = catchBlock(l2)]
    /\ UNCHANGED <<disk, runs, prev>>

\* fs.writeJson(historyFilePath, history) after the commit (894-898), then
\* finally connection.end(); a failed write is caught by the same catch as a
\* failed statement (900-902).
SaveHistory(p) ==
    LET l == proc[p]
        l2 == [l EXCEPT !.writes = l.writes + 1]
    IN
    /\ l.pc = "save"
    /\ \E w \in WriteOutcomes :
         /\ disk' = [disk EXCEPT ![pathOf(l)] = writeJson(@, l.history, w)]
         /\ proc' = [proc EXCEPT ![p] =
               IF w = "ok"
               THEN [Exit0(l2, "executed")
                       EXCEPT !.wire = Append(l.wire, Wire("END", <<>>)),
                              !.conn = "ended"]
               ELSE catchBlock(l2)]
    /\ UNCHANGED <<db, runs, prev>>

\* Faulty variant: when the splitter throws, the whole script is taken as one
\* statement and the run goes on.
ParseSqlFileLLMFallingBack(p) ==
    LET l == proc[p] IN
    /\ l.pc = "parse"
    /\ \E response \in LlmResponses(l.script) :
         LET result == llmSplitSqlFile(response) IN
         proc' = [proc EXCEPT ![p] =
            IF result.ok
            THEN [l EXCEPT !.pc = "findNew",
                           !.statements = statementRecords(result.statements)]
            ELSE [l EXCEPT !.pc = "findNew",
                           !.message = "LLM parsing failed",
                           !.statements = statementRecords(<<l.script>>)]]
    /\ UNCHANGED <<disk, db, runs, prev>>

\* parseSqlFile of the LLM-backed variant (src/lib/index.js 286-303, called
\* 133-134): when splitSqlFile throws, the catch logs and calls
\* process.exit(1).
ParseSqlFileLLM(p) ==
    LET l == proc[p] IN
    /\ l.pc = "parse"
    /\ \E response \in LlmResponses(l.script) :
         LET result == llmSplitSqlFile(response) IN
         proc' = [proc EXCEPT ![p] =
            IF result.ok
            THEN [l EXCEPT !.pc = "findNew",
                           !.statements = statementRecords(result.statements)]
            ELSE Fatal(l, "LLM parsing failed")]
    /\ UNCHANGED <<disk, db, runs, prev>>

\* What LLMService.validateSqlStatement gives (llm-service.js 82-152): an
\* answer with isValid true or false, or it throws.
Validations == {"valid", "invalid", "error"}

\* Faulty variant: a statement reported invalid is skipped with a message and
\* the loop goes on to the next one.
ExecuteStatementLLMSkipping(p) ==
    LET l == proc[p]
        statement == l.newStatements[l.i]
    IN
    /\ l.pc = "loop"
    /\ \E validation \in Validations, ok \in BOOLEAN :
         proc' = [proc EXCEPT ![p] =
            CASE validation = "invalid" ->
                   [l EXCEPT !.message = "SQL validation failed",
                             !.i = l.i + 1,
                             !.pc = IF l.i + 1 > Len(l.newStatements)
                                    THEN "commit" ELSE "loop"]
              [] validation = "error" ->
                   [Fatal(l, "LLM validation failed")
                      EXCEPT !.tx = dbRollback(l.tx),
                             !.wire = Append(l.wire, Wire("ROLLBACK", <<>>)),
                             !.conn = "dropped"]
              [] OTHER ->
                   IF ok THEN executedOne(l)
                   ELSE catchBlock([l EXCEPT !.wire = Append(l.wire,
                                                  Wire("EXECUTE", statement.sql)),
                                             !.failedAt = l.i])]
    /\ UNCHANGED <<disk, db, runs, prev>>

\* One iteration of the loop of executeStatements of the LLM-backed variant
\* (src/lib/index.js 358-419).  isValid false: rollback, this.error, caught
\* by the inner catch, which rolls back again and calls process.exit(1)
\* (372-407); validateSqlStatement throws: the inner catch alone.  The
\* finally block does not run after process.exit.
ExecuteStatementLLM(p) ==
    LET l == proc[p]
        statement == l.newStatements[l.i]
    IN
    /\ l.pc = "loop"
    /\ \E validation \in Validations, ok \in BOOLEAN :
         proc' = [proc EXCEPT ![p] =
            CASE validation = "invalid" ->
                   [Fatal(l, "SQL validation failed")
                      EXCEPT !.tx = dbRollback(l.tx),
                             !.wire = l.wire \o <<Wire("ROLLBACK", <<>>),
                                                  Wire("ROLLBACK", <<>>)>>,
                             !.conn = "dropped"]
              [] validation = "error" ->
                   [Fatal(l, "LLM validation failed")
                      EXCEPT !.tx = dbRollback(l.tx),
                             !.wire = Append(l.wire, Wire("ROLLBACK", <<>>)),
                             !.conn = "dropped"]
              [] OTHER ->
                   IF ok THEN executedOne(l)
                   ELSE catchBlock([l EXCEPT !.wire = Append(l.wire,
                                                  Wire("EXECUTE", statement.sql)),
                                             !.failedAt = l.i])]
    /\ UNCHANGED <<disk, db, runs, prev>>

\* The steps of one invocation after its start.
Step(p) ==
    \/ Prepare(p)
    \/ ClearHistory(p)
    \/ LoadHistory(p)
    \/ ParseSqlFile(p)
    \/ FindNewStatements(p)
    \/ NoNewStatements(p)
    \/ RecordHistoryOnly(p)
    \/ ConfirmExecution(p)
    \/ CreateConnection(p)
    \/ BeginTransaction(p)
    \/ ExecuteStatement(p)
    \/ Commit(p)
    \/ SaveHistory(p)

\* Sequential runs of one process for one (environment, file) pair.
Next == Invoke(1, {Pair1}, Scripts) \/ Step(1)

Spec == Init /\ [][Next]_vars

\* Sequential runs of one process for several (environment, file) pairs.
NextPairs == Invoke(1, Pairs, {ScriptA, ScriptB}) \/ Step(1)

SpecPairs == Init /\ [][NextPairs]_vars

\* Sequential runs of the LLM-backed variant for one pair.  The steps that
\* the two variants share are the same lines of code in both (run 66-177
\* and 549-666); the [openrouter] section of the configuration is taken to
\* be present.
NextLLM ==
    \/ Invoke(1, {Pair1}, {ScriptA, ScriptB})
    \/ Prepare(1)
    \/ ClearHistory(1)
    \/ LoadHistory(1)
    \/ ParseSqlFileLLM(1)
    \/ FindNewStatements(1)
    \/ NoNewStatements(1)
    \/ RecordHistoryOnly(1)
    \/ ConfirmExecution(1)
    \/ CreateConnection(1)
    \/ BeginTransaction(1)
    \/ ExecuteStatementLLM(1)
    \/ Commit(1)
    \/ SaveHistory(1)

SpecLLM == Init /\ [][NextLLM]_vars

(***************************************************************************)
(* The splitter on its own                                                 *)
(***************************************************************************)

\* Number of pieces a content of the SQL file is made of.
MaxTokens == 4

\* The pieces: "IF a", "x", ";", "'", '"', "`", "--", "#", "/*", "*/", LF.
SplitTokens ==
    { <<73, 70, 32, 97>>, <<120>>, <<59>>, <<39>>, <<34>>, <<96>>,
      <<45, 45>>, <<35>>, <<47, 42>>, <<42, 47>>, <<10>> }

\* The contents made of at most n pieces.
RECURSIVE Contents(_)
Contents(n) ==
    IF n = 0 THEN {<<>>}
    ELSE LET shorter == Contents(n - 1)
         IN  shorter \cup {c \o t : c \in shorter, t \in SplitTokens}

\* A caller is about to hand a content to the splitter.
InitSplit ==
    /\ disk = [path \in HistoryPaths |-> NoFile]
    /\ db = [e \in Environments |-> <<>>]
    /\ runs = 0
    /\ prev = Summary(Idle)
    /\ \E content \in Contents(MaxTokens) :
          proc = [p \in Procs |->
                    IF p = 1 THEN [Idle EXCEPT !.pc = "split", !.script = content]
                    ELSE Idle]

\* this.splitBySemicolon(content) (part_004 123-170); the field "statements"
\* holds the strings returned.
SplitBySemicolon(p) ==
    LET l == proc[p] IN
    /\ l.pc = "split"
    /\ proc' = [proc EXCEPT ![p] =
          [l EXCEPT !.pc = "splitDone", !.statements = splitBySemicolon(l.script)]]
    /\ UNCHANGED <<disk, db, runs, prev>>

\* sqlParserService.splitSqlFile(content) (part_004 9-54); the field
\* "statements" holds the strings returned.
SplitSqlFile(p) ==
    LET l == proc[p] IN
    /\ l.pc = "split"
    /\ proc' = [proc EXCEPT ![p] =
          [l EXCEPT !.pc = "fileDone", !.statements = splitSqlFile(l.script)]]
    /\ UNCHANGED <<disk, db, runs, prev>>

NextSplit == SplitBySemicolon(1) \/ SplitSqlFile(1)

SpecSplit == InitSplit /\ [][NextSplit]_vars

(***************************************************************************)
(* Claims                                                                  *)
(***************************************************************************)

IsPrefix(s, t) == Len(s) <= Len(t) /\ SubSeq(t, 1, Len(s)) = s

Range(s) == {s[k] : k \in 1..Len(s)}

\* The invocation of the sequential specification.
Run == proc[1]

\* The statements that have a record without recordedOnly in the persisted
\* history of the run's pair, and the statements committed to its database.
\* Before the first invocation there is no pair yet, no file and an empty
\* database.
PersistedExecuted ==
    IF Run.pc = "idle" THEN {}
    ELSE {r.sql : r \in {x \in Range(disk[pathOf(Run)].executed) : ~x.recordedOnly}}

Committed == IF Run.pc = "idle" THEN {} ELSE Range(db[Run.environment])

\* The records an Execute run appends for its new statements.
ExecutedRecords(l) ==
    [k \in 1..Len(l.newStatements) |-> HistoryRecord(l.newStatements[k], l.now, FALSE)]

\* C1: when the execution of statement k of the batch fails, the run stops
\* there with a rollback: the commands sent are CONNECT, BEGIN, statements
\* 1..k, ROLLBACK, END (so k+1..n are never sent), the transaction holds
\* nothing, no history write was attempted, the persisted history is what it
\* was when the run started and so is the database.
C1_RollbackOnFailure ==
    LET l == Run
        k == l.failedAt
    IN  k # 0 =>
          /\ ~l.recordHistory /\ ~l.clearHistory
          /\ l.pc = "done" /\ l.exitCode = 1
          /\ l.wire = <<Wire("CONNECT", <<>>), Wire("BEGIN", <<>>)>>
                        \o [j \in 1..k |-> Wire("EXECUTE", l.newStatements[j].sql)]
                        \o <<Wire("ROLLBACK", <<>>), Wire("END", <<>>)>>
          /\ l.tx = <<>>
          /\ l.writes = 0
          /\ disk[pathOf(l)] = l.disk0
          /\ db[l.environment] = l.db0

\* Statement 2 of a batch of 3 failed, after statement 1 succeeded, on a
\* database that holds statements committed by an earlier run.
C1_Witness ==
    /\ Run.failedAt = 2
    /\ Len(Run.newStatements) = 3
    /\ Len(Run.db0) > 0

\* C2 as stated: in every reachable state the statements with a record
\* (not recordedOnly) in the persisted history are exactly the statements
\* committed to the database.
C2_Original == PersistedExecuted = Committed

\* C2 amended: a statement with a record (not recordedOnly) in the persisted
\* history was committed to the database, in every state; and when an
\* Execute run has ended with its history written, every statement it
\* committed has such a record.  (Between COMMIT and the history write, and
\* after a failed write, the history lacks committed statements.)
C2_HistoryImpliesCommitted ==
    /\ PersistedExecuted \subseteq Committed
    /\ (Run.pc = "done" /\ Run.outcome = "executed") =>
          /\ {s.sql : s \in Range(Run.newStatements)} \subseteq PersistedExecuted
          /\ {s.sql : s \in Range(Run.newStatements)} \subseteq Committed

\* An Execute run has committed and written its history, after an earlier
\* run left the database ahead of the history.
C2_Witness ==
    /\ Run.pc = "done" /\ Run.outcome = "executed"
    /\ Len(Run.newStatements) >= 2
    /\ PersistedExecuted # {}
    /\ PersistedExecuted # Committed

\* C3: at every point of an Execute run that started from persisted history
\* H and found N new, the history file is what it was at the start, or (once
\* the run has ended) a readable document holding H followed by one record
\* per statement of N.
C3_AllOrNothing ==
    LET l == Run IN
    (l.pc # "idle" /\ ~l.recordHistory /\ ~l.clearHistory) =>
        \/ disk[pathOf(l)] = l.disk0
        \/ /\ l.pc = "done"
           /\ disk[pathOf(l)] = JsonFile(l.disk0.executed \o ExecutedRecords(l))

\* C4: the run that follows an Execute run that committed and persisted, on
\* the same pair with the same script, finds nothing new, does not prompt,
\* sends nothing to the database, writes no history, and ends as a no-op
\* with status 0.
C4_NoopAfterSuccess ==
    LET l == Run IN
    (/\ prev.outcome = "executed"
     /\ l.pc # "idle" /\ l.pre = "ok" /\ ~l.clearHistory
     /\ l.environment = prev.environment /\ l.sqlFileName = prev.sqlFileName
     /\ l.script = prev.script) =>
        /\ l.newStatements = <<>>
        /\ ~l.prompted
        /\ l.wire = <<>> /\ l.conn = "none"
        /\ l.writes = 0
        /\ disk[pathOf(l)] = l.disk0
        /\ l.pc = "done" => (l.outcome = "noop" /\ l.exitCode = 0)

\* The second run on an unchanged script of several statements has ended.
C4_Witness ==
    /\ prev.outcome = "executed"
    /\ Run.script = prev.script
    /\ ~Run.clearHistory /\ ~Run.recordHistory
    /\ Len(Run.statements) >= 2
    /\ Run.pc = "done" /\ Run.outcome = "noop"

C6_NewIffHashAbsent ==
    LET l == Run IN
    l.pc = "dispatch" =>
        /\ \A k \in 1..Len(l.statements) :
              (\E j \in 1..Len(l.newStatements) : l.newStatements[j] = l.statements[k])
                 <=> ~(\E r \in 1..Len(l.history) :
                          l.history[r].hash = l.statements[k].hash)
        /\ Range(l.newStatements) \subseteq Range(l.statements)
        /\ (l.statements = <<>>) => (l.newStatements = <<>>)
        /\ (l.history = <<>>) => (l.newStatements = l.statements)

\* The history holds the hash of a statement of the script under another
\* text, and the script has a statement that is new.
C6_Witness ==
    LET l == Run IN
    /\ l.pc = "dispatch"
    /\ Len(l.newStatements) > 0
    /\ \E k \in 1..Len(l.statements), r \in 1..Len(l.history) :
          /\ l.history[r].hash = l.statements[k].hash
          /\ l.history[r].sql # l.statements[k].sql

\* C7: right after findNewStatements, the output is a subsequence of the
\* input: its j-th element is the input statement at position f(j) for a
\* strictly increasing f.
C7_Subsequence ==
    LET l == Run
        n == Len(l.statements)
        m == Len(l.newStatements)
    IN
    l.pc = "dispatch" =>
        /\ m <= n
        /\ \E f \in [1..m -> 1..n] :
              /\ \A j \in 1..m : l.newStatements[j] = l.statements[f[j]]
              /\ \A j \in 1..(m - 1) : f[j] < f[j + 1]

\* Two of three statements are new.
C7_Witness ==
    /\ Run.pc = "dispatch"
    /\ Len(Run.statements) = 3
    /\ Len(Run.newStatements) = 2

\* C8: the tracking step changes neither the statement list nor the history
\* in memory nor any file or database; and a run on the same pair and script
\* as the run before it, when that run executed and recorded nothing (it was
\* cancelled or found nothing new), finds the same new statements.
C8_TrackingStepFrame ==
    (proc[1].pc = "findNew" /\ proc'[1].pc # "findNew") =>
        /\ proc'[1].statements = proc[1].statements
        /\ proc'[1].history = proc[1].history
        /\ disk' = disk
        /\ db' = db

C8_SameResultAgain ==
    LET l == Run IN
    (/\ prev.outcome \in {"cancelled", "noop"}
     /\ l.pc = "dispatch"
     /\ l.environment = prev.environment /\ l.sqlFileName = prev.sqlFileName
     /\ l.script = prev.script) =>
        l.newStatements = prev.newStatements

C8_TrackingIsPure == [][C8_TrackingStepFrame]_vars /\ []C8_SameResultAgain

\* A cancelled run is followed by a run on the same script that has just
\* computed the same, non-empty, new statements from a non-empty history.
C8_Witness ==
    /\ prev.outcome = "cancelled"
    /\ Run.pc = "dispatch"
    /\ Run.script = prev.script
    /\ Len(Run.newStatements) > 0
    /\ Len(Run.history) > 0

\* C9: when an Execute or Record-Only run has ended, the history file it
\* found readable is still readable and the records persisted before the run
\* are an unchanged prefix of the records persisted now.
C9_AppendOnly ==
    LET l == Run IN
    (l.pc = "done" /\ ~l.clearHistory) =>
        /\ l.disk0.readable => disk[pathOf(l)].readable
        /\ IsPrefix(l.disk0.executed, disk[pathOf(l)].executed)

\* C10: a run with --record-history sends nothing to the database: no
\* connection attempt, no statement, no transaction, and the database is
\* what it was when the run started.
C10_RecordOnlyNoDatabase ==
    LET l == Run IN
    l.recordHistory =>
        /\ l.wire = <<>>
        /\ l.conn = "none"
        /\ l.tx = <<>>
        /\ db[l.environment] = l.db0

\* A Record-Only run has recorded several statements.
C10_Witness ==
    /\ Run.recordHistory /\ ~Run.clearHistory
    /\ Run.pc = "done" /\ Run.outcome = "recorded"
    /\ Len(Run.newStatements) >= 2

\* The records a Record-Only run appends for its new statements.
RecordedOnlyRecords(l) ==
    [k \in 1..Len(l.newStatements) |-> HistoryRecord(l.newStatements[k], l.now, TRUE)]

\* The records the run l has pushed to the history it loaded.
Pushed(l) == SubSeq(l.history, Len(l.disk0.executed) + 1, Len(l.history))

\* C11: a Record-Only run that found new statements and ended with status 0
\* has written the history once, and the file holds the history it loaded
\* followed by one record per new statement, in the order findNewStatements
\* gave, each with that statement's id, hash and text and recordedOnly =
\* TRUE; a Record-Only run that found nothing new ends as a no-op without
\* writing; and no record pushed by an Execute run has recordedOnly = TRUE.
C11_RecordOnlyAppends ==
    LET l == Run IN
    /\ (l.recordHistory /\ ~l.clearHistory /\ l.pc = "done" /\ l.exitCode = 0) =>
          IF Len(l.newStatements) # 0
          THEN /\ l.outcome = "recorded"
               /\ l.writes = 1
               /\ Pushed(l) = RecordedOnlyRecords(l)
               /\ \A k \in 1..Len(l.newStatements) :
                     /\ Pushed(l)[k].id = l.newStatements[k].id
                     /\ Pushed(l)[k].hash = l.newStatements[k].hash
                     /\ Pushed(l)[k].sql = l.newStatements[k].sql
                     /\ Pushed(l)[k].recordedOnly
               /\ disk[pathOf(l)] = JsonFile(l.disk0.executed \o RecordedOnlyRecords(l))
          ELSE /\ l.outcome = "noop"
               /\ l.writes = 0
               /\ disk[pathOf(l)] = l.disk0
    /\ (~l.recordHistory /\ ~l.clearHistory /\ l.pc # "idle") =>
          \A k \in 1..Len(Pushed(l)) : ~Pushed(l)[k].recordedOnly

\* A Record-Only run has recorded two new statements of a script of three
\* behind a history that already held a record.
C11_Witness ==
    /\ Run.recordHistory /\ ~Run.clearHistory
    /\ Run.pc = "done" /\ Run.outcome = "recorded"
    /\ Len(Run.statements) = 3
    /\ Len(Run.newStatements) = 2
    /\ Len(Run.disk0.executed) > 0

\* C12: the run without --record-history and --clear-history that follows a
\* Record-Only run that recorded, on the same pair with the same script,
\* finds every statement's hash in the history and nothing new: it does not
\* prompt, sends nothing to the database, leaves the database and the
\* history file as they were and ends as a no-op with status 0.
C12_ExecuteAfterRecordOnly ==
    LET l == Run IN
    (/\ prev.outcome = "recorded"
     /\ l.pc # "idle" /\ l.pre = "ok"
     /\ ~l.recordHistory /\ ~l.clearHistory
     /\ l.environment = prev.environment /\ l.sqlFileName = prev.sqlFileName
     /\ l.script = prev.script) =>
        /\ l.newStatements = <<>>
        /\ l.pc \in {"dispatch", "done"} =>
              \A k \in 1..Len(l.statements) :
                 \E r \in 1..Len(l.history) : l.history[r].hash = l.statements[k].hash
        /\ ~l.prompted
        /\ l.wire = <<>> /\ l.conn = "none" /\ l.tx = <<>>
        /\ l.writes = 0
        /\ disk[pathOf(l)] = l.disk0
        /\ db[l.environment] = l.db0
        /\ l.pc = "done" => (l.outcome = "noop" /\ l.exitCode = 0)

\* The Record-Only run started without history and recorded a script of
\* several statements: the file holds one recordedOnly record per statement
\* and nothing else, and the Execute-mode run that followed has ended.
C12_Witness ==
    LET l == Run IN
    /\ prev.outcome = "recorded"
    /\ l.script = prev.script
    /\ ~l.recordHistory /\ ~l.clearHistory
    /\ l.pc = "done" /\ l.outcome = "noop"
    /\ Len(l.statements) >= 3
    /\ prev.newStatements = l.statements
    /\ Len(l.history) = Len(l.statements)
    /\ \A r \in 1..Len(l.history) : l.history[r].recordedOnly

\* C13: a run with --clear-history that got past the checks of the SQL file
\* and the configuration never sends anything to the database, never loads
\* the history and never splits the script; when it has ended, its status is
\* 0, it reported the file deleted exactly when the file existed (readable
\* or not) and absent otherwise, the file does not exist and the database is
\* what it was.
C13_ClearHistory ==
    LET l == Run IN
    (l.clearHistory /\ l.pre = "ok") =>
        /\ l.wire = <<>> /\ l.conn = "none" /\ l.tx = <<>>
        /\ l.history = <<>> /\ l.statements = <<>> /\ l.newStatements = <<>>
        /\ ~l.prompted /\ l.writes = 0
        /\ db[l.environment] = l.db0
        /\ l.pc = "done" =>
              /\ l.exitCode = 0
              /\ l.outcome = (IF l.disk0.exists THEN "cleared" ELSE "absent")
              /\ disk[pathOf(l)] = NoFile

\* A Clear-History run has deleted a history file that is not JSON, for a
\* database that holds committed statements.
C13_Witness ==
    /\ Run.clearHistory /\ Run.pre = "ok"
    /\ Run.pc = "done" /\ Run.outcome = "cleared"
    /\ Run.disk0 = BrokenFile
    /\ Len(Run.db0) > 0

\* C14: the Clear-History run that follows a Clear-History run for the same
\* pair starts without a history file; it ends with status 0 reporting the
\* file absent and leaves the files and the database as they were.
C14_ClearTwice ==
    LET l == Run IN
    (/\ prev.clearHistory /\ prev.outcome \in {"cleared", "absent"}
     /\ l.clearHistory /\ l.pre = "ok"
     /\ l.environment = prev.environment /\ l.sqlFileName = prev.sqlFileName) =>
        /\ prev.exitCode = 0
        /\ l.disk0 = NoFile
        /\ disk[pathOf(l)] = NoFile
        /\ db[l.environment] = l.db0
        /\ l.pc = "done" => (l.outcome = "absent" /\ l.exitCode = 0)

\* The first Clear-History run deleted a file, the second has ended.
C14_Witness ==
    /\ prev.clearHistory /\ prev.outcome = "cleared"
    /\ Run.clearHistory /\ Run.pre = "ok"
    /\ Run.pc = "done" /\ Run.outcome = "absent"

\* C15: no step of a run, in any mode, changes the history file of a pair
\* other than the run's own pair.
C15_OtherPairsStepFrame ==
    \A q \in Pairs :
        (proc[1].pc \notin {"idle", "done"}
           /\ q # <<proc[1].environment, proc[1].sqlFileName>>) =>
            disk'[historyFilePath(q[1], q[2])] = disk[historyFilePath(q[1], q[2])]

C15_PairIsolation == [][C15_OtherPairsStepFrame]_vars

\* C16: a run started with both --record-history and --clear-history is
\* rejected: it ends with status 1, the history file is what it was, no
\* history write was attempted and nothing was sent to the database.
C16_BothFlagsRejected ==
    LET l == Run IN
    (l.recordHistory /\ l.clearHistory /\ l.pc # "idle") =>
        /\ disk[pathOf(l)] = l.disk0
        /\ l.writes = 0
        /\ l.wire = <<>> /\ l.conn = "none"
        /\ l.pc = "done" => l.exitCode = 1

\* The three effects of a run: its history file existed when it started and
\* does not now; it pushed records flagged recordedOnly; it sent a command
\* to the database.
DeletedHistory(l) == l.pc # "idle" /\ l.disk0.exists /\ ~disk[pathOf(l)].exists
PushedRecordedOnly(l) == \E k \in 1..Len(Pushed(l)) : Pushed(l)[k].recordedOnly
UsedDatabase(l) == l.wire # <<>>

\* C17: no run has two of the three effects, each effect occurs only in the
\* mode the flags select (--clear-history first, then --record-history,
\* else Execute), and no step of a run changes its flags.
C17_OneEffect ==
    LET l == Run IN
    /\ ~(DeletedHistory(l) /\ PushedRecordedOnly(l))
    /\ ~(DeletedHistory(l) /\ UsedDatabase(l))
    /\ ~(PushedRecordedOnly(l) /\ UsedDatabase(l))
    /\ DeletedHistory(l) => l.clearHistory
    /\ PushedRecordedOnly(l) => (l.recordHistory /\ ~l.clearHistory)
    /\ UsedDatabase(l) => (~l.recordHistory /\ ~l.clearHistory)

C17_FlagsStepFrame ==
    proc[1].pc \notin {"idle", "done"} =>
        /\ proc'[1].recordHistory = proc[1].recordHistory
        /\ proc'[1].clearHistory = proc[1].clearHistory

C17_ModeExclusive == []C17_OneEffect /\ [][C17_FlagsStepFrame]_vars

\* Each of the three effects has occurred in some run: this one deleted the
\* history that an Execute run and a Record-Only run before it had written.
C17_Witness ==
    /\ DeletedHistory(Run)
    /\ Len(Run.db0) > 0
    /\ \E k \in 1..Len(Run.disk0.executed) : Run.disk0.executed[k].recordedOnly

\* C18: a run without --record-history and --clear-history whose tracking
\* step found nothing new has not prompted, has sent nothing to the
\* database and has attempted no history write; its next step ends it as a
\* no-op with status 0, and the history file (absent if it was absent) and
\* the database are still what they were when the run started.
C18_NothingNew ==
    LET l == Run IN
    (~l.recordHistory /\ ~l.clearHistory
       /\ (l.pc = "dispatch" \/ l.outcome = "noop") /\ Len(l.newStatements) = 0) =>
        /\ ~l.prompted
        /\ l.wire = <<>> /\ l.conn = "none" /\ l.tx = <<>>
        /\ l.writes = 0
        /\ disk[pathOf(l)] = l.disk0
        /\ db[l.environment] = l.db0
        /\ l.pc = "done" => l.exitCode = 0

C18_NothingNewStep ==
    (~proc[1].recordHistory /\ ~proc[1].clearHistory
       /\ proc[1].pc = "dispatch" /\ Len(proc[1].newStatements) = 0) =>
        /\ proc'[1] = Exit0(proc[1], "noop")
        /\ disk' = disk
        /\ db' = db

C18_ExecuteNoop == []C18_NothingNew /\ [][C18_NothingNewStep]_vars

\* An Execute-mode run on a script without statements, for a pair without
\* history file, has ended and there is still no file.
C18_Witness ==
    /\ ~Run.recordHistory /\ ~Run.clearHistory
    /\ Run.pc = "done" /\ Run.outcome = "noop"
    /\ Run.script # <<>> /\ Run.statements = <<>>
    /\ ~Run.disk0.exists /\ ~disk[pathOf(Run)].exists

\* The answers that are "y" or "yes" in any mix of upper and lower case.
IsYes(answer) ==
    \/ Len(answer) = 1 /\ answer[1] \in {121, 89}
    \/ Len(answer) = 3 /\ answer[1] \in {121, 89} /\ answer[2] \in {101, 69}
                       /\ answer[3] \in {115, 83}

\* C19: a command is sent to the database only by a run that prompted and
\* was answered "y" or "yes" (any case); a run that prompted and was
\* answered anything else, empty input included, has ended as cancelled with
\* status 0 without sending anything to the database or attempting a history
\* write, and the history file and the database are what they were.
C19_ConfirmFirst ==
    LET l == Run IN
    /\ l.wire # <<>> => (l.prompted /\ IsYes(l.answer))
    /\ (l.prompted /\ ~IsYes(l.answer)) =>
          /\ l.pc = "done" /\ l.outcome = "cancelled" /\ l.exitCode = 0
          /\ l.wire = <<>> /\ l.conn = "none" /\ l.tx = <<>>
          /\ l.writes = 0
          /\ disk[pathOf(l)] = l.disk0
          /\ db[l.environment] = l.db0

\* A run with new statements and a non-empty history was answered with
\* empty input.
C19_Witness ==
    /\ Run.prompted /\ Run.answer = <<>>
    /\ Run.outcome = "cancelled"
    /\ Len(Run.newStatements) >= 2
    /\ Len(Run.disk0.executed) > 0

\* The statements the run l has sent to the database, in the order sent.
Sent(l) == SelectSeq(l.wire, LAMBDA w : w.op = "EXECUTE")

\* C20: the statements a run has sent are the first n of its new statements,
\* each sent once and in the order of the script (increasing id); while the
\* loop runs every statement sent so far has succeeded in the transaction,
\* so statement i+1 is sent only after statements 1..i succeeded; and when
\* statement k failed, the run has ended with exactly statements 1..k sent:
\* the failed one is not sent again and none after it is sent.
C20_InOrderOnce ==
    LET l == Run
        n == Len(Sent(l))
    IN
    /\ n <= Len(l.newStatements)
    /\ Sent(l) = [j \in 1..n |-> Wire("EXECUTE", l.newStatements[j].sql)]
    /\ \A j \in 1..(Len(l.newStatements) - 1) :
          l.newStatements[j].id < l.newStatements[j + 1].id
    /\ l.pc = "loop" =>
          /\ n = l.i - 1
          /\ l.failedAt = 0
          /\ l.tx = [j \in 1..n |-> l.newStatements[j].sql]
    /\ l.failedAt # 0 => (n = l.failedAt /\ l.pc = "done" /\ l.exitCode = 1)

\* Once a statement of a run has failed, nothing more is sent in that run.
C20_NoRetryStep ==
    (proc[1].failedAt # 0 /\ proc'[1].now = proc[1].now) =>
        proc'[1].wire = proc[1].wire

C20_SourceOrder == []C20_InOrderOnce /\ [][C20_NoRetryStep]_vars

\* The third of three new statements has been sent after the first two
\* succeeded, and it failed.
C20_Witness ==
    /\ Run.failedAt = 3
    /\ Len(Sent(Run)) = 3
    /\ Len(Run.newStatements) = 3

\* The run l has sent COMMIT and the database is what it was when the run
\* started: the commit failed (a commit that succeeds adds the statements
\* of the transaction to the database).
CommitFailed(l) ==
    /\ \E k \in 1..Len(l.wire) : l.wire[k].op = "COMMIT"
    /\ Len(l.newStatements) > 0
    /\ db[l.environment] = l.db0

\* C21: when COMMIT failed after every statement of the batch was executed,
\* the run has ended with status 1 after ROLLBACK and END, it attempted no
\* history write, and the history file is what it was when the run started:
\* it holds no record of the batch.
C21_CommitFailure ==
    LET l == Run IN
    CommitFailed(l) =>
        /\ l.pc = "done" /\ l.exitCode = 1 /\ l.outcome = "fatal"
        /\ l.wire = <<Wire("CONNECT", <<>>), Wire("BEGIN", <<>>)>>
                      \o [j \in 1..Len(l.newStatements) |->
                             Wire("EXECUTE", l.newStatements[j].sql)]
                      \o <<Wire("COMMIT", <<>>), Wire("ROLLBACK", <<>>),
                           Wire("END", <<>>)>>
        /\ l.writes = 0
        /\ disk[pathOf(l)] = l.disk0
        /\ \A r \in Range(disk[pathOf(l)].executed) : r.executedAt # l.now

\* COMMIT failed for a batch of several statements on top of a history that
\* holds records.
C21_Witness ==
    /\ CommitFailed(Run)
    /\ Len(Run.newStatements) >= 2
    /\ Len(Run.disk0.executed) > 0

\* The run l committed its batch and then failed to write the history.
WriteFailedAfterCommit(l) ==
    /\ ~l.recordHistory /\ ~l.clearHistory
    /\ l.pc = "done" /\ l.writes = 1 /\ l.exitCode = 1

\* C22: a run whose history write failed after the commit has ended with
\* status 1 and its message does not say that the transaction was rolled
\* back.
C22_StaleHistoryReported ==
    LET l == Run IN
    WriteFailedAfterCommit(l) =>
        /\ l.outcome = "fatal"
        /\ l.message # "Transaction failed and was rolled back"

\* The run l could not open its database connection.
ConnectionFailed(l) == l.message = "connection failed"

\* C23: a run whose connection could not be opened has ended with status 1;
\* the only thing it did with the database is the attempt to connect (no
\* BEGIN, no statement), it attempted no history write, and the history file
\* and the database are what they were when the run started.
C23_ConnectionFailure ==
    LET l == Run IN
    ConnectionFailed(l) =>
        /\ l.pc = "done" /\ l.exitCode = 1 /\ l.outcome = "fatal"
        /\ ~l.recordHistory /\ ~l.clearHistory
        /\ l.wire = <<Wire("CONNECT", <<>>)>>
        /\ l.conn = "none" /\ l.tx = <<>>
        /\ l.writes = 0
        /\ disk[pathOf(l)] = l.disk0
        /\ db[l.environment] = l.db0

\* The connection failed for a confirmed batch of several statements on top
\* of a history that holds records.
C23_Witness ==
    /\ ConnectionFailed(Run)
    /\ Len(Run.newStatements) >= 2
    /\ Len(Run.disk0.executed) > 0

\* C24: a run without --clear-history that got past the checks of the SQL
\* file and the configuration and whose history file exists and is not JSON
\* never has a history in memory, never splits the script, finds no new
\* statements, does not prompt, sends nothing to the database and attempts
\* no history write; the file stays as it was, and when the run has ended
\* its status is 1.
C24_UnreadableHistory ==
    LET l == Run IN
    (l.pc # "idle" /\ l.pre = "ok" /\ ~l.clearHistory
       /\ l.disk0.exists /\ ~l.disk0.readable) =>
        /\ l.pc \in {"start", "mode", "done"}
        /\ l.history = <<>> /\ l.statements = <<>> /\ l.newStatements = <<>>
        /\ ~l.prompted
        /\ l.wire = <<>> /\ l.conn = "none"
        /\ l.writes = 0
        /\ disk[pathOf(l)] = l.disk0
        /\ db[l.environment] = l.db0
        /\ l.pc = "done" => (l.exitCode = 1 /\ l.outcome = "fatal")

\* An Execute-mode run on a script with statements has ended on a history
\* file that is not JSON, for a database that holds committed statements.
C24_Witness ==
    /\ ~Run.recordHistory /\ ~Run.clearHistory /\ Run.pre = "ok"
    /\ Run.disk0 = BrokenFile
    /\ Run.pc = "done"
    /\ Len(parseSqlFile(Run.script)) >= 2
    /\ Len(Run.db0) > 0

SplitFailed(l) == l.message = "LLM parsing failed"

\* C26: a run whose splitter failed has ended with status 1 without a
\* statement list and without new statements; it did not prompt, sent
\* nothing to the database and attempted no history write, and the history
\* file and the database are what they were when the run started.
C26_SplitFailureAborts ==
    LET l == Run IN
    SplitFailed(l) =>
        /\ l.pc = "done" /\ l.exitCode = 1 /\ l.outcome = "fatal"
        /\ l.statements = <<>> /\ l.newStatements = <<>>
        /\ ~l.prompted
        /\ l.wire = <<>> /\ l.conn = "none" /\ l.tx = <<>>
        /\ l.writes = 0
        /\ disk[pathOf(l)] = l.disk0
        /\ db[l.environment] = l.db0

\* The splitter failed in an Execute-mode run that had loaded a history
\* with records, for a database that holds committed statements.
C26_Witness ==
    /\ SplitFailed(Run)
    /\ ~Run.recordHistory /\ ~Run.clearHistory
    /\ Len(Run.history) > 0
    /\ Len(Run.db0) > 0

\* C27: splitSqlFile returns every non-empty piece that the cleaned content
\* has between semicolons: none is left out of a result returned as a
\* success.  (The model's splitSqlFile has no failure: the code has no
\* input on which it throws.)
C27_NoSilentDrop ==
    LET l == Run IN
    l.pc = "fileDone" =>
        l.statements = splitBySemicolon(cleanSqlContent(l.script))

\* Quoted literals, as SQL reads them: a literal opens at a ', " or `
\* outside a literal and closes at the next occurrence of the same character
\* that is not doubled.  LiteralAt(s, k, q) is, for each position from k
\* on, the quote character of the literal that position is in (0 outside a
\* literal; the opening quote counts as outside, the closing one as inside),
\* when the literal q is open before k.
RECURSIVE LiteralAt(_, _, _)
LiteralAt(s, k, q) ==
    IF k > Len(s) THEN <<>>
    ELSE IF q = 0
         THEN <<0>> \o LiteralAt(s, k + 1, IF s[k] \in {39, 34, 96} THEN s[k] ELSE 0)
    ELSE IF s[k] # q THEN <<q>> \o LiteralAt(s, k + 1, q)
    ELSE IF k + 1 <= Len(s) /\ s[k + 1] = q
         THEN <<q, q>> \o LiteralAt(s, k + 2, q)
    ELSE <<q>> \o LiteralAt(s, k + 1, 0)

\* The positions of the semicolons of s inside and outside literals.
QuotedSemicolons(s) ==
    {k \in 1..Len(s) : s[k] = 59 /\ LiteralAt(s, 1, 0)[k] # 0}
UnquotedSemicolons(s) ==
    {k \in 1..Len(s) : s[k] = 59 /\ LiteralAt(s, 1, 0)[k] = 0}

\* The positions of s where a doubled quote character stands inside a
\* literal of its own type.
DoubledQuotes(s) ==
    {k \in 1..(Len(s) - 1) :
        LiteralAt(s, 1, 0)[k] # 0 /\ s[k] = LiteralAt(s, 1, 0)[k]
        /\ s[k + 1] = s[k] /\ LiteralAt(s, 1, 0)[k + 1] = s[k]}

\* Number of semicolons in a list of statements.
RECURSIVE CountSemicolons(_)
CountSemicolons(statements) ==
    IF statements = <<>> THEN 0
    ELSE Cardinality({k \in 1..Len(Head(statements)) : Head(statements)[k] = 59})
         + CountSemicolons(Tail(statements))

\* C28: splitBySemicolon ends a statement at no semicolon that is inside a
\* literal of any of the three quote types, a doubled quote character not
\* closing the literal: every such semicolon is in the text of a returned
\* statement (the returned statements hold as many semicolons as the
\* content has inside literals), and the statements are at most one more
\* than the semicolons outside literals.
C28_QuotedSemicolons ==
    LET l == Run IN
    l.pc = "splitDone" =>
        /\ CountSemicolons(l.statements) = Cardinality(QuotedSemicolons(l.script))
        /\ Len(l.statements) <= Cardinality(UnquotedSemicolons(l.script)) + 1

\* The content has a literal with a doubled quote followed by a semicolon
\* inside the literal, and one statement came back.
C28_Witness ==
    LET l == Run IN
    /\ l.pc = "splitDone"
    /\ \E d \in DoubledQuotes(l.script), k \in QuotedSemicolons(l.script) : d < k
    /\ Len(l.statements) = 1

\* Comment markers of s that stand outside every literal: "--", "/*", and
\* "#" at the start of a line.
MarkersOutsideLiterals(s) ==
    {k \in 1..Len(s) :
        /\ LiteralAt(s, 1, 0)[k] = 0
        /\ \/ k + 1 <= Len(s) /\ s[k] = 45 /\ s[k + 1] = 45
           \/ k + 1 <= Len(s) /\ s[k] = 47 /\ s[k + 1] = 42
           \/ s[k] = 35 /\ (k = 1 \/ IsLineTerminator(s[k - 1]))}

\* Every literal of s is closed.
LiteralsClosed(s) == LiteralAt(s \o <<32>>, 1, 0)[Len(s) + 1] = 0

\* C29: when every literal of the content is closed and every comment
\* marker of the content is inside a literal, the content has no comment,
\* and splitSqlFile returns what it returns when no comment is removed: the
\* literals are intact and the statements end where they ended.
C29_MarkersInLiterals ==
    LET l == Run IN
    (l.pc = "fileDone" /\ LiteralsClosed(l.script)
       /\ MarkersOutsideLiterals(l.script) = {}) =>
        l.statements =
            validStatements(splitBySemicolon(trim(collapseWhitespace(l.script))))

\* The pieces of s between the semicolons outside literals, in order, each
\* trimmed, the empty ones left out.
RECURSIVE Pieces(_, _, _)
Pieces(s, from, k) ==
    IF k > Len(s)
    THEN IF trim(SubSeq(s, from, Len(s))) # <<>>
         THEN <<trim(SubSeq(s, from, Len(s)))>> ELSE <<>>
    ELSE IF k \in UnquotedSemicolons(s)
         THEN (IF trim(SubSeq(s, from, k - 1)) # <<>>
               THEN <<trim(SubSeq(s, from, k - 1))>> ELSE <<>>)
              \o Pieces(s, k + 1, k + 1)
    ELSE Pieces(s, from, k + 1)

\* C30: splitBySemicolon returns the pieces of the content between the
\* semicolons outside literals, trimmed, in the order of the content;
\* no returned statement is empty or begins or ends with white space, and
\* none has a semicolon outside a literal.
C30_TrimmedPieces ==
    LET l == Run IN
    l.pc = "splitDone" =>
        /\ l.statements = Pieces(l.script, 1, 1)
        /\ \A j \in 1..Len(l.statements) :
              /\ l.statements[j] # <<>>
              /\ trim(l.statements[j]) = l.statements[j]
              /\ UnquotedSemicolons(l.statements[j]) = {}

\* Two different statements came back from a content with white space
\* before the semicolon between them.
C30_Witness ==
    LET l == Run IN
    /\ l.pc = "splitDone"
    /\ Len(l.statements) = 2
    /\ l.statements[1] # l.statements[2]
    /\ \E k \in UnquotedSemicolons(l.script) :
          k > 1 /\ IsWs(l.script[k - 1])

(***************************************************************************)
(* generateHash on its own                                                 *)
(***************************************************************************)

\* Longest text drawn from HashAlphabet.
MaxHashLen == 5

\* Code units of the texts: "0", "a", "z" and the largest code unit.
HashAlphabet == {48, 97, 122, 65535}

\* The texts of at most n code units of HashAlphabet.
RECURSIVE HashTexts(_)
HashTexts(n) ==
    IF n = 0 THEN {<<>>}
    ELSE LET shorter == HashTexts(n - 1)
         IN  shorter \cup {Append(t, c) : t \in shorter, c \in HashAlphabet}

\* Statement texts of the scripts: "SET a", "SET Aa", "SET BB".
HashStatements ==
    { <<83, 69, 84, 32, 97>>, <<83, 69, 84, 32, 65, 97>>, <<83, 69, 84, 32, 66, 66>> }

\* Two processes are each about to fingerprint the same text.
InitHash ==
    /\ disk = [path \in HistoryPaths |-> NoFile]
    /\ db = [e \in Environments |-> <<>>]
    /\ runs = 0
    /\ prev = Summary(Idle)
    /\ \E text \in HashTexts(MaxHashLen) \cup HashStatements :
          proc = [p \in Procs |-> [Idle EXCEPT !.pc = "hash", !.script = text]]

\* hash: this.generateHash(sql) (761-765): the field "statements" holds the
\* object built from the text and its fingerprint.
GenerateHash(p) ==
    LET l == proc[p] IN
    /\ l.pc = "hash"
    /\ proc' = [proc EXCEPT ![p] =
          [l EXCEPT !.pc = "hashDone",
                    !.statements = <<[id |-> 1, sql |-> l.script,
                                      hash |-> generateHash(l.script)]>>]]
    /\ UNCHANGED <<disk, db, runs, prev>>

NextHash == GenerateHash(1) \/ GenerateHash(2)

SpecHash == InitHash /\ [][NextHash]_vars

\* The recurrence h' = 31 * h + c modulo 2^32 on four bytes, least
\* significant first.
recurrenceStep(b, c) ==
    LET t1 == 31 * b[1] + c
        t2 == 31 * b[2] + (t1 \div 256)
        t3 == 31 * b[3] + (t2 \div 256)
        t4 == 31 * b[4] + (t3 \div 256)
    IN  <<t1 % 256, t2 % 256, t3 % 256, t4 % 256>>

RECURSIVE recurrence(_, _)
recurrence(text, n) ==
    IF n = 0 THEN <<0, 0, 0, 0>>
    ELSE recurrenceStep(recurrence(text, n - 1), text[n])

\* The four bytes read as a two's-complement number.
signedValue(b) ==
    (IF b[4] >= 128 THEN b[4] - 256 ELSE b[4]) * 16777216
        + b[3] * 65536 + b[2] * 256 + b[1]

\* A decimal numeral: digits without a leading zero, with "-" in front of a
\* numeral other than "0".
IsDecimal(t) ==
    LET d == IF Len(t) > 0 /\ t[1] = 45 THEN Tail(t) ELSE t IN
    /\ Len(d) >= 1
    /\ \A k \in 1..Len(d) : d[k] >= 48 /\ d[k] <= 57
    /\ Len(d) > 1 => d[1] # 48
    /\ Len(t) > Len(d) => d # <<48>>

\* Minus the number written by the digits d[1..n].
RECURSIVE minusDigits(_, _)
minusDigits(d, n) ==
    IF n = 0 THEN 0 ELSE minusDigits(d, n - 1) * 10 - (d[n] - 48)

\* The number a decimal numeral of at most 10 digits denotes.
decimalValue(t) ==
    IF t[1] = 45 THEN minusDigits(Tail(t), Len(t) - 1) ELSE -minusDigits(t, Len(t))

\* Fingerprints computed by JavaScript: of "", "a", "SET a", "SET Aa",
\* "SET BB" and five times the code unit 65535.
KnownFingerprints ==
    { << <<>>, <<48>> >>,
      << <<97>>, <<57, 55>> >>,
      << <<83, 69, 84, 32, 97>>, <<55, 56, 55, 56, 57, 54, 51, 53>> >>,
      << <<83, 69, 84, 32, 65, 97>>,
         <<45, 49, 56, 53, 50, 52, 56, 57, 53, 48, 54>> >>,
      << <<83, 69, 84, 32, 66, 66>>,
         <<45, 49, 56, 53, 50, 52, 56, 57, 53, 48, 54>> >>,
      << <<65535, 65535, 65535, 65535, 65535>>,
         <<45, 49, 56, 56, 52, 49, 51, 49, 50, 54, 53>> >> }

\* C31: generateHash gives the text a fingerprint; the fingerprint is the
\* decimal numeral, within the signed 32-bit range, of h_n where h_0 = 0 and
\* h_(i+1) = 31 * h_i + c_i wrapped to 32 bits; the empty text gives "0";
\* and two processes fingerprinting the same text get the same numeral.
C31_Fingerprint ==
    /\ \A p \in Procs :
          LET l == proc[p] IN
          /\ l.pc = "hashDone" =>
                LET f == l.statements[1].hash IN
                /\ IsDecimal(f)
                /\ Len(f) <= 11
                /\ decimalValue(f) = signedValue(recurrence(l.script, Len(l.script)))
                /\ l.script = <<>> => f = <<48>>
                /\ \A known \in KnownFingerprints :
                      known[1] = l.script => f = known[2]
    /\ (proc[1].pc = "hashDone" /\ proc[2].pc = "hashDone"
            /\ proc[1].script = proc[2].script) =>
          proc[1].statements[1].hash = proc[2].statements[1].hash

\* Both processes have fingerprinted a text whose hash wrapped below zero.
C31_Witness ==
    /\ proc[1].pc = "hashDone" /\ proc[2].pc = "hashDone"
    /\ Len(proc[1].script) = 5
    /\ proc[1].statements[1].hash[1] = 45
    /\ proc[2].statements[1].hash[1] = 45

\* The validation of a statement reported it invalid, or failed itself.
ValidationFailed(l) ==
    /\ l.pc = "done"
    /\ l.message \in {"SQL validation failed", "LLM validation failed"}

\* C32: when the validation of statement k of a batch reports it invalid, or
\* fails itself, statements 1..k-1 and no others were sent, no COMMIT was
\* sent, the last command on the connection is ROLLBACK and the transaction
\* is gone, the run has ended with a non-zero status, and the database and
\* the persisted history are what they were when the run started.
C32_ValidationAborts ==
    LET l == Run IN
    ValidationFailed(l) =>
        /\ l.exitCode = 1
        /\ l.outcome = "fatal"
        /\ l.i \in 1..Len(l.newStatements)
        /\ Sent(l) = [j \in 1..(l.i - 1) |-> Wire("EXECUTE", l.newStatements[j].sql)]
        /\ \A j \in 1..Len(l.wire) : l.wire[j].op # "COMMIT"
        /\ l.wire[Len(l.wire)].op = "ROLLBACK"
        /\ l.tx = <<>>
        /\ l.writes = 0
        /\ disk[pathOf(l)] = l.disk0
        /\ db[l.environment] = l.db0

\* Statement 2 of a batch of 3 was reported invalid after statement 1 was
\* executed, on a database that holds statements of an earlier run.
C32_Witness ==
    /\ ValidationFailed(Run)
    /\ Run.message = "SQL validation failed"
    /\ Run.i = 2
    /\ Len(Run.newStatements) = 3
    /\ Len(Sent(Run)) = 1
    /\ Len(Run.db0) > 0

(***************************************************************************)
(* Termination.  run() is one async function: every await in it is settled *)
(* by the runtime (a file operation returns or throws, the database driver *)
(* answers or reports an error, the prompt is answered), and the code that *)
(* follows runs.  So a step that stays possible is eventually taken.       *)
(***************************************************************************)
\* Invocations with one of two scripts, step by step.
NextFair == Invoke(1, {Pair1}, {ScriptA, ScriptB}) \/ Step(1)

FairSpec == Init /\ [][NextFair]_vars /\ WF_vars(Step(1))

\* The outcomes with which run() returns.
SuccessOutcomes == {"cleared", "absent", "noop", "recorded", "cancelled", "executed"}

\* An invocation is between its start and its end.
Running(l) == l.pc \notin {"idle", "done"}

\* The outcome and status of an invocation: none before it ends; at its end
\* either a success outcome with status 0, or a reported cause with a
\* non-zero status.  A missing script file, a missing configuration
\* section, a failed statement and a failed connection end with a non-zero
\* status.
C33_OneOutcome ==
    LET l == Run IN
    /\ Running(l) => l.outcome = "none" /\ l.exitCode = -1
    /\ l.pc = "done" =>
          /\ \/ l.outcome \in SuccessOutcomes /\ l.exitCode = 0 /\ l.message = ""
             \/ l.outcome = "fatal" /\ l.exitCode = 1 /\ l.message # ""
          /\ (l.pre # "ok" \/ l.failedAt > 0 \/ ConnectionFailed(l)) =>
                l.outcome = "fatal"

\* An invocation that has ended stays as it ended until the next is started.
C33_OutcomeFinal ==
    Run.pc = "done" => (proc'[1] = proc[1] \/ proc'[1].pc = "start")

\* C33: every invocation ends; it ends with exactly one outcome, status 0
\* for cleared, nothing new, recorded, cancelled, and executed and
\* persisted, and a non-zero status with the cause reported for a missing
\* script file, a missing configuration section, a failed statement and a
\* failed connection.
C33_Terminates ==
    /\ []C33_OneOutcome
    /\ [][C33_OutcomeFinal]_vars
    /\ (Running(Run) ~> (Run.pc = "done"))

\* An Execute run that was confirmed, connected and ran its three statements
\* has ended.
C33_Witness ==
    /\ Run.pc = "done"
    /\ Run.outcome = "executed"
    /\ Run.prompted
    /\ Len(Sent(Run)) = 3

\* The commands of a run on its connection, the closing of it left out.
Commands(l) == SelectSeq(l.wire, LAMBDA w : w.op # "END")

\* The COMMIT of the run took effect.
CommitSucceeded(l) ==
    /\ \E k \in 1..Len(l.wire) : l.wire[k].op = "COMMIT"
    /\ db[l.environment] # l.db0

\* C34: the commands of an Execute run on its connection are, in order,
\* connect, BEGIN, the new statements in script order, then COMMIT or
\* ROLLBACK; COMMIT comes only after every new statement was sent and none
\* failed; ROLLBACK is the last command, is sent once, and never follows a
\* COMMIT that took effect; a run that opened a connection and has ended
\* sent one of the two.
C34_CommandOrder ==
    LET l == Run
        w == Commands(l)
        n == Len(w)
    IN
    (l.pc # "idle" /\ n >= 1) =>
        /\ w[1].op = "CONNECT"
        /\ n >= 2 => w[2].op = "BEGIN"
        /\ \A k \in 3..n :
              /\ w[k].op \in {"EXECUTE", "COMMIT", "ROLLBACK"}
              /\ w[k].op = "EXECUTE" =>
                    /\ k - 2 <= Len(l.newStatements)
                    /\ w[k].sql = l.newStatements[k - 2].sql
                    /\ \A j \in 3..k : w[j].op = "EXECUTE"
              /\ w[k].op = "COMMIT" =>
                    /\ k = Len(l.newStatements) + 3
                    /\ l.failedAt = 0
              /\ w[k].op = "ROLLBACK" =>
                    /\ k = n
                    /\ ~CommitSucceeded(l)
        /\ (l.pc = "done" /\ n >= 2) => w[n].op \in {"COMMIT", "ROLLBACK"}

(***************************************************************************)
(* Two invocations at a time.  Each is its own process running run(); the  *)
(* processes share the history files and the databases, and their steps    *)
(* interleave in any order.  The first process is started any number of    *)
(* times, the second once, while the first is running.                     *)
(***************************************************************************)
NextConcurrent ==
    \/ Invoke(1, {Pair1}, {ScriptA})
    \/ proc[2].pc = "idle" /\ proc[1].pc \notin {"idle", "done"}
          /\ Invoke(2, {Pair1}, {ScriptA})
    \/ Step(1)
    \/ Step(2)

SpecConcurrent == Init /\ [][NextConcurrent]_vars

\* The records an invocation pushed itself, and those it loaded.
OwnRecords(l) == SelectSeq(l.history, LAMBDA r : r.executedAt = l.now)
LoadedRecords(l) == SelectSeq(l.history, LAMBDA r : r.executedAt # l.now)

\* Both processes have ended Execute runs for the same pair that loaded the
\* same history and committed and persisted.
BothExecuted ==
    /\ \A p \in Procs : proc[p].pc = "done" /\ proc[p].outcome = "executed"
    /\ pathOf(proc[1]) = pathOf(proc[2])
    /\ LoadedRecords(proc[1]) = LoadedRecords(proc[2])

\* C35: no step of an invocation waits for the other invocation; and when
\* two Execute runs for the same pair loaded the same history and both
\* committed and persisted, both committed the same new statements, the
\* persisted history is the one written by one of them, and it holds none of
\* the records the other pushed.
C35_Uncoordinated ==
    /\ \A p \in Procs : Running(proc[p]) => ENABLED Step(p)
    /\ BothExecuted =>
          /\ proc[1].newStatements = proc[2].newStatements
          /\ \E p \in Procs, q \in Procs :
                /\ p # q
                /\ disk[pathOf(proc[p])] = JsonFile(proc[p].history)
                /\ OwnRecords(proc[q]) # <<>>
                /\ \A r \in Range(OwnRecords(proc[q])) :
                      r \notin Range(disk[pathOf(proc[p])].executed)

\* Lost update: both runs committed the statement, so the database holds it
\* twice, and the persisted history has one record, that of process 2.
C35_Witness ==
    /\ BothExecuted
    /\ proc[1].script = proc[2].script
    /\ Len(db[proc[1].environment]) = 2
    /\ disk[pathOf(proc[1])] = JsonFile(proc[2].history)
    /\ Len(proc[2].history) = 1
    /\ OwnRecords(proc[1]) # <<>>

(***************************************************************************)
(* Crashes.  The process can be killed between any two steps of run(), and *)
(* during a write of the history file.  The database server drops the      *)
(* transaction of a connection that is lost; what was committed stays.     *)
(***************************************************************************)

\* The process is killed.  Killed while fs.writeJson is writing (895, 929),
\* it leaves the file as it was or truncated.
Crash(p) ==
    LET l == proc[p]
        writing == \/ l.pc = "save"
                   \/ l.pc = "dispatch" /\ l.recordHistory /\ Len(l.newStatements) # 0
        l2 == [l EXCEPT !.pc = "done",
                        !.outcome = IF l.pc = "save" THEN "crashedAfterCommit"
                                    ELSE "crashed",
                        !.exitCode = 137,
                        !.tx = dbRollback(l.tx),
                        !.conn = IF l.conn = "open" THEN "dropped" ELSE l.conn]
    IN
    /\ l.pc \notin {"idle", "done"}
    /\ \E w \in {"failed", "partial"} :
          /\ w = "partial" => writing
          /\ disk' = [disk EXCEPT ![pathOf(l)] = writeJson(@, l.history, w)]
    /\ proc' = [proc EXCEPT ![p] = l2]
    /\ UNCHANGED <<db, runs, prev>>

NextCrash == Invoke(1, {Pair1}, {ScriptA, ScriptB}) \/ Step(1) \/ Crash(1)

SpecCrash == Init /\ [][NextCrash]_vars

\* The run is an Execute run whose files are in place and that was not
\* killed, at or after the point where it knows what is new or has given up.
ExecuteRunPastTracking(l) ==
    /\ l.pre = "ok" /\ ~l.recordHistory /\ ~l.clearHistory
    /\ l.pc \notin {"idle", "start", "mode", "parse", "findNew"}
    /\ l.outcome \notin {"crashed", "crashedAfterCommit"}

\* C36: when an Execute run is killed after COMMIT and before the history is
\* rewritten, the database holds the new statements and the persisted history
\* is the one the run started from; the next Execute run for the pair with
\* the same script finds exactly those statements new; and when an Execute
\* run is killed before COMMIT, the database and the persisted history are
\* what they were when it started.
C36_CrashWindow ==
    LET l == Run IN
    /\ (l.pc = "done" /\ l.outcome = "crashedAfterCommit") =>
          /\ db[l.environment] = l.db0 \o [k \in 1..Len(l.newStatements) |->
                                              l.newStatements[k].sql]
          /\ disk[pathOf(l)] = l.disk0
    /\ (l.pc = "done" /\ l.outcome = "crashed"
            /\ ~l.recordHistory /\ ~l.clearHistory) =>
          /\ db[l.environment] = l.db0
          /\ disk[pathOf(l)] = l.disk0
    /\ (/\ prev.outcome = "crashedAfterCommit"
        /\ ExecuteRunPastTracking(l)
        /\ pathOf(l) = historyFilePath(prev.environment, prev.sqlFileName)
        /\ l.script = prev.script) =>
          /\ l.newStatements = prev.newStatements
          /\ l.pc \in {"loop", "commit", "save"} =>
                IsPrefix(Sent(l), [k \in 1..Len(l.newStatements) |->
                                      Wire("EXECUTE", l.newStatements[k].sql)])

\* The run follows a Clear-History run for the same pair, is not itself a
\* Clear-History run, and has loaded the history.
AfterClearHistory(l) ==
    /\ prev.clearHistory /\ prev.outcome \in {"cleared", "absent"}
    /\ l.pc \notin {"idle", "start", "mode"}
    /\ l.pre = "ok" /\ ~l.clearHistory
    /\ pathOf(l) = historyFilePath(prev.environment, prev.sqlFileName)

\* C37: the Execute or Record-Only run that follows a Clear-History run for
\* the same pair finds no history file and loads an empty history, and what
\* it finds new is every statement of its script, in script order.
C37_FreshAfterClear ==
    LET l == Run IN
    AfterClearHistory(l) =>
        /\ l.disk0 = NoFile
        /\ l.pc \in {"parse", "findNew"} => l.history = <<>>
        /\ l.pc \notin {"parse", "findNew"} =>
              /\ l.statements = parseSqlFile(l.script)
              /\ l.newStatements = l.statements
              /\ \A k \in 1..Len(l.history) : l.history[k].executedAt = l.now

\* After an Execute run committed the statements and a Clear-History run
\* deleted the history that held them, a run finds all three statements new.
C37_Witness ==
    /\ AfterClearHistory(Run)
    /\ prev.outcome = "cleared"
    /\ Run.pc = "dispatch"
    /\ Len(Run.newStatements) = 3
    /\ Len(Run.db0) > 0

\* The positions j < k of the script of l that hold the same text, with a
\* fingerprint that is not in the history the run started from.
RepeatedUnapplied(l) ==
    {jk \in (1..Len(l.statements)) \X (1..Len(l.statements)) :
        /\ jk[1] < jk[2]
        /\ l.statements[jk[1]].sql = l.statements[jk[2]].sql
        /\ l.statements[jk[1]].hash \notin
              {l.disk0.executed[n].hash : n \in 1..Len(l.disk0.executed)}}

\* C38: when a script holds the same text at two positions and its
\* fingerprint is not in the history, both occurrences are new; an Execute
\* run that commits and persists has sent both and appended two records with
\* the same hash, one per position; and the next run on the script finds no
\* statement with that hash new.
C38_RepeatedText ==
    LET l == Run IN
    /\ (l.pre = "ok" /\ ~l.clearHistory
            /\ l.pc \notin {"idle", "start", "mode", "parse", "findNew"}) =>
          \A jk \in RepeatedUnapplied(l) :
             /\ \A n \in {jk[1], jk[2]} : l.statements[n] \in Range(l.newStatements)
             /\ (l.pc = "done" /\ l.outcome = "executed") =>
                   /\ Len(SelectSeq(Sent(l),
                          LAMBDA w : w.sql = l.statements[jk[1]].sql)) >= 2
                   /\ \A n \in {jk[1], jk[2]} :
                         HistoryRecord(l.statements[n], l.now, FALSE)
                            \in Range(Pushed(l))
                   /\ IsPrefix(l.disk0.executed, disk[pathOf(l)].executed)
                   /\ disk[pathOf(l)] = JsonFile(l.history)
    /\ (/\ prev.outcome = "executed"
        /\ l.pre = "ok" /\ ~l.clearHistory
        /\ l.pc \notin {"idle", "start", "mode", "parse", "findNew"}
        /\ pathOf(l) = historyFilePath(prev.environment, prev.sqlFileName)
        /\ l.script = prev.script) =>
          \A n \in 1..Len(l.newStatements) :
             l.newStatements[n].hash \notin
                {prev.newStatements[m].hash : m \in 1..Len(prev.newStatements)}

\* A run on "SET b; SET b" follows the Execute run that applied it: the
\* history holds two records with the same hash and nothing is new.
C38_Witness ==
    /\ prev.outcome = "executed"
    /\ prev.script = ScriptD /\ Run.script = ScriptD
    /\ Len(prev.newStatements) = 2
    /\ Run.pc = "done" /\ Run.outcome = "noop"
    /\ Len(disk[pathOf(Run)].executed) = 2
    /\ disk[pathOf(Run)].executed[1].hash = disk[pathOf(Run)].executed[2].hash
    /\ disk[pathOf(Run)].executed[1].id # disk[pathOf(Run)].executed[2].id

\* The ids of a sequence of statements or records grow strictly.
IdsIncrease(s) == \A j \in 1..Len(s), k \in 1..Len(s) : j < k => s[j].id < s[k].id

\* C39: the k-th statement of the parsed script has id k; a statement found
\* new is the statement of the script with its id; every record a run pushes
\* carries the id, text and hash of the statement at that position of the
\* script; so the ids of the new statements and of the records pushed by one
\* run grow strictly, in memory and in the file the run writes.
C39_Positions ==
    LET l == Run
        pushed == Pushed(l)
    IN
    (l.pc # "idle" /\ l.pre = "ok") =>
        /\ \A k \in 1..Len(l.statements) : l.statements[k].id = k
        /\ \A n \in 1..Len(l.newStatements) :
              /\ l.newStatements[n].id \in 1..Len(l.statements)
              /\ l.newStatements[n] = l.statements[l.newStatements[n].id]
        /\ IdsIncrease(l.newStatements)
        /\ \A n \in 1..Len(pushed) :
              /\ pushed[n].id = l.newStatements[n].id
              /\ pushed[n].sql = l.statements[pushed[n].id].sql
              /\ pushed[n].hash = l.statements[pushed[n].id].hash
        /\ IdsIncrease(pushed)
        /\ (l.pc = "done" /\ l.outcome \in {"executed", "recorded"}) =>
              /\ pushed # <<>>
              /\ disk[pathOf(l)].executed = l.disk0.executed \o pushed

\* A run on a script of three statements found only the third new and has
\* persisted its record, which carries id 3.
C39_Witness ==
    /\ Run.pc = "done" /\ Run.outcome = "executed"
    /\ Len(Run.statements) = 3
    /\ Len(Run.newStatements) = 1
    /\ Pushed(Run)[1].id = 3
    /\ disk[pathOf(Run)].executed[Len(disk[pathOf(Run)].executed)].id = 3

(***************************************************************************)
(* Layout of the script.  A run on a script follows an Execute run that     *)
(* applied and recorded the same statements laid out differently: other    *)
(* whitespace between the tokens, and a comment on lines of its own before *)
(* or after the statements.                                                *)
(***************************************************************************)

\* Number of pieces in the body of a comment.
MaxCommentTokens == 2

\* The pieces of a comment body: "x", " ", "--", "#", "'", ";", "/*", LF.
CommentTokens ==
    { <<120>>, <<32>>, <<45, 45>>, <<35>>, <<39>>, <<59>>, <<47, 42>>, <<10>> }

\* The comment bodies of at most n pieces.
RECURSIVE CommentBodies(_)
CommentBodies(n) ==
    IF n = 0 THEN {<<>>}
    ELSE LET shorter == CommentBodies(n - 1)
         IN  shorter \cup {b \o t : b \in shorter, t \in CommentTokens}

\* The comments: "--" and "#" up to the end of the line, "/*" up to the
\* first "*/" after it.
StandaloneComments ==
    LET bodies == CommentBodies(MaxCommentTokens)
        oneLine == {b \in bodies : \A k \in 1..Len(b) : b[k] # 10}
        block == {<<47, 42>> \o b \o <<42, 47>> : b \in bodies}
    IN  {<<45, 45>> \o b : b \in oneLine}
           \cup {<<35>> \o b : b \in oneLine}
           \cup {c \in block :
                    \A k \in 3..(Len(c) - 2) : ~(c[k] = 42 /\ c[k + 1] = 47)}

\* What stands for one whitespace character of the script: " ", LF, "  ",
\* TAB LF " ".
Spacings == { <<32>>, <<10>>, <<32, 32>>, <<9, 10, 32>> }

\* The script with each whitespace character replaced by the spacing.
RECURSIVE Respace(_, _)
Respace(script, spacing) ==
    IF script = <<>> THEN <<>>
    ELSE (IF IsWs(Head(script)) THEN spacing ELSE <<Head(script)>>)
            \o Respace(Tail(script), spacing)

\* The layouts of a script.
LayoutVariants(script) ==
    LET spaced == {Respace(script, spacing) : spacing \in Spacings}
    IN  spaced
           \cup {c \o <<10>> \o s : c \in StandaloneComments, s \in spaced}
           \cup {s \o <<10>> \o c : c \in StandaloneComments, s \in spaced}

\* An Execute run on the script "base" for Pair1, on an empty history and
\* database, has committed and persisted; the next run, on a layout of the
\* script, has loaded the history.
InitLayout ==
    \E base \in {ScriptA, ScriptB} :
       LET statements == parseSqlFile(base)
           history == [k \in 1..Len(statements) |->
                          HistoryRecord(statements[k], 1, FALSE)]
           first == [Idle EXCEPT !.pc = "done", !.outcome = "executed",
                                 !.exitCode = 0,
                                 !.environment = Pair1[1],
                                 !.sqlFileName = Pair1[2],
                                 !.script = base,
                                 !.statements = statements,
                                 !.newStatements = statements]
       IN
       /\ disk = [path \in HistoryPaths |->
                     IF path = historyFilePath(Pair1[1], Pair1[2])
                     THEN JsonFile(history) ELSE NoFile]
       /\ db = [e \in Environments |->
                   IF e = Pair1[1]
                   THEN [k \in 1..Len(statements) |-> statements[k].sql]
                   ELSE <<>>]
       /\ runs = 2
       /\ prev = Summary(first)
       /\ \E variant \in LayoutVariants(base) :
             proc = [p \in Procs |->
                       IF p = 1
                       THEN [Idle EXCEPT !.pc = "parse",
                                         !.environment = Pair1[1],
                                         !.sqlFileName = Pair1[2],
                                         !.script = variant,
                                         !.history = history,
                                         !.disk0 = JsonFile(history),
                                         !.db0 = db[Pair1[1]],
                                         !.now = 2]
                       ELSE Idle]

NextLayout == ParseSqlFile(1) \/ FindNewStatements(1) \/ NoNewStatements(1)

SpecLayout == InitLayout /\ [][NextLayout]_vars

\* The fingerprints of a list of statements.
Fingerprints(statements) == [k \in 1..Len(statements) |-> statements[k].hash]

\* C40: a script that differs from the one applied by the last Execute run
\* only in the whitespace between its tokens or in comments on lines of
\* their own is split into statements with the same fingerprints, in the
\* same order, and the run on it finds no new statements.
C40_LayoutInsensitive ==
    LET l == Run IN
    (prev.outcome = "executed" /\ l.pc \notin {"idle", "parse"}) =>
        /\ Fingerprints(l.statements) = Fingerprints(prev.statements)
        /\ l.pc # "findNew" => l.newStatements = <<>>
=============================================================================
